---- MODULE Spec2Model ----
(***************************************************************************)
(* Model of the match recorder of scalcetting-tracker                      *)
(* (src/database/database.js): the giocatori and partite tables, the       *)
(* createPartita transaction run on a connection of its own, and the       *)
(* operations that share the long-lived connection (createGiocatore,       *)
(* resetDatabase, getGiocatori, getPartite, exportData, checkHealth).      *)
(*                                                                         *)
(* Numbers of the JavaScript side (team means, deltas, new ratings) can be *)
(* half-integers, because a team mean is (a + b) / 2.  They are modelled   *)
(* as integers counting HALVES: the JavaScript number x is the integer     *)
(* 2 * x.  Values of INT columns of the store are plain integers.          *)
(***************************************************************************)
EXTENDS Integers, Sequences, FiniteSets, TLC

(* ------------------------------ bounds -------------------------------- *)
\* createPartita invocations started in one behaviour of the concurrent
\* specifications
MaxCalls == 2
\* createPartita invocations started in one behaviour of SpecFull
MaxCallsFull == 1
\* createPartita invocations started in one behaviour of SpecSeq
MaxCallsSeq == 3
\* largest K factor calcolaELO is applied to on its own
MaxK == 33
\* small ratings calcolaELO is applied to on its own: -MaxSmallElo..MaxSmallElo
MaxSmallElo == 3
\* rows the giocatori table may hold (caps AUTO_INCREMENT)
MaxPlayers == 7
\* createPartita invocations started in one behaviour of SpecRead
MaxCallsRead == 2
\* requests POST /partite answered in one behaviour of SpecRoute
MaxRichieste == 1
\* seconds the clock of the store advances in one behaviour of SpecRead
MaxClock == 1

(* --------------------------- program constants ------------------------ *)
\* database.js:179 (and the column default, database.js:71)
EloIniziale == 1500
\* database.js:290
FattoreK == 32
\* database.js:275
GiocatoriPerPartita == 4

\* validation.js:39
IdMassimo == 999999

\* Fixed-point scale of the table of expected scores below.
Scala == 10 ^ 7

\* AttesoTab[d + 1] = 1 / (1 + 10^(d / 800)) * Scala, rounded, for d = 0..400:
\* the expected score of database.js:358 for a rating difference
\* eloB - eloA of d halves (d / 2 points).
AttesoTab ==
  <<
     5000000, 4992804, 4985609, 4978413, 4971218, 4964023, 4956828, 4949633, 4942438, 4935243,
     4928049, 4920855, 4913662, 4906468, 4899276, 4892083, 4884891, 4877700, 4870509, 4863318,
     4856128, 4848939, 4841750, 4834562, 4827375, 4820188, 4813002, 4805817, 4798633, 4791449,
     4784267, 4777085, 4769904, 4762724, 4755545, 4748368, 4741191, 4734015, 4726840, 4719667,
     4712494, 4705323, 4698153, 4690984, 4683817, 4676651, 4669486, 4662323, 4655161, 4648000,
     4640841, 4633683, 4626527, 4619372, 4612219, 4605068, 4597918, 4590770, 4583623, 4576478,
     4569335, 4562194, 4555054, 4547917, 4540781, 4533647, 4526515, 4519385, 4512257, 4505131,
     4498006, 4490884, 4483765, 4476647, 4469531, 4462418, 4455306, 4448197, 4441090, 4433986,
     4426884, 4419784, 4412686, 4405591, 4398499, 4391408, 4384321, 4377235, 4370153, 4363073,
     4355995, 4348920, 4341848, 4334778, 4327712, 4320647, 4313586, 4306528, 4299472, 4292419,
     4285369, 4278322, 4271277, 4264236, 4257198, 4250163, 4243130, 4236101, 4229075, 4222052,
     4215032, 4208016, 4201002, 4193992, 4186985, 4179982, 4172981, 4165984, 4158990, 4152000,
     4145013, 4138030, 4131050, 4124073, 4117100, 4110131, 4103165, 4096203, 4089244, 4082289,
     4075338, 4068390, 4061446, 4054506, 4047570, 4040637, 4033708, 4026783, 4019862, 4012945,
     4006032, 3999123, 3992218, 3985316, 3978419, 3971526, 3964637, 3957752, 3950871, 3943994,
     3937122, 3930253, 3923389, 3916530, 3909674, 3902823, 3895976, 3889133, 3882295, 3875461,
     3868632, 3861807, 3854986, 3848170, 3841359, 3834552, 3827750, 3820952, 3814159, 3807370,
     3800586, 3793807, 3787033, 3780263, 3773498, 3766738, 3759982, 3753232, 3746486, 3739745,
     3733009, 3726278, 3719552, 3712831, 3706115, 3699403, 3692697, 3685996, 3679300, 3672609,
     3665923, 3659242, 3652567, 3645896, 3639231, 3632571, 3625916, 3619267, 3612623, 3605984,
     3599350, 3592722, 3586099, 3579481, 3572869, 3566263, 3559661, 3553066, 3546475, 3539891,
     3533312, 3526738, 3520170, 3513607, 3507051, 3500499, 3493954, 3487414, 3480880, 3474351,
     3467828, 3461311, 3454800, 3448295, 3441795, 3435301, 3428813, 3422331, 3415855, 3409384,
     3402920, 3396462, 3390009, 3383563, 3377122, 3370688, 3364259, 3357837, 3351420, 3345010,
     3338606, 3332208, 3325816, 3319430, 3313050, 3306677, 3300310, 3293949, 3287594, 3281246,
     3274904, 3268568, 3262238, 3255915, 3249598, 3243287, 3236983, 3230686, 3224394, 3218109,
     3211831, 3205559, 3199293, 3193034, 3186782, 3180536, 3174296, 3168063, 3161837, 3155617,
     3149404, 3143197, 3136997, 3130804, 3124618, 3118438, 3112264, 3106098, 3099938, 3093785,
     3087638, 3081499, 3075366, 3069240, 3063121, 3057008, 3050903, 3044804, 3038712, 3032627,
     3026549, 3020478, 3014414, 3008356, 3002306, 2996263, 2990226, 2984197, 2978174, 2972158,
     2966150, 2960148, 2954154, 2948167, 2942186, 2936213, 2930247, 2924288, 2918336, 2912391,
     2906454, 2900523, 2894600, 2888684, 2882775, 2876873, 2870978, 2865091, 2859211, 2853338,
     2847472, 2841614, 2835763, 2829919, 2824083, 2818254, 2812432, 2806617, 2800810, 2795010,
     2789218, 2783432, 2777655, 2771884, 2766121, 2760366, 2754618, 2748877, 2743144, 2737418,
     2731699, 2725988, 2720285, 2714589, 2708900, 2703219, 2697546, 2691880, 2686221, 2680570,
     2674927, 2669291, 2663663, 2658042, 2652429, 2646824, 2641226, 2635635, 2630052, 2624477,
     2618910, 2613350, 2607797, 2602253, 2596716, 2591186, 2585665, 2580151, 2574644, 2569146,
     2563655, 2558172, 2552696, 2547228, 2541768, 2536315, 2530871, 2525434, 2520005, 2514583,
     2509169, 2503763, 2498365, 2492975, 2487592, 2482217, 2476850, 2471491, 2466139, 2460795,
     2455460, 2450131, 2444811, 2439499, 2434194, 2428897, 2423608, 2418327, 2413054, 2407788,
     2402531
  >>

\* Largest rating difference, in halves, the table covers.
MaxDiff == Len(AttesoTab) - 1

(* ----------------------------- pure code ------------------------------ *)

\* database.js:358: atteso = 1 / (1 + Math.pow(10, (eloB - eloA) / 400)),
\* times Scala.  eloA, eloB in halves.  For a negative difference the
\* logistic curve gives 1 - atteso(-d).
Atteso(eloA, eloB) ==
  LET d == eloB - eloA
  IN  IF d >= 0 THEN AttesoTab[d + 1] ELSE Scala - AttesoTab[(-d) + 1]

\* Math.floor in the place of Math.round.
MathFloor(halves, num) ==
  LET q   == halves \div 2
      rem == halves % 2
  IN  2 * (q + ((rem * Scala + num) \div (2 * Scala)))

\* Math.round of ECMAScript: floor(x + 1/2), ties go towards +Infinity.
\* The argument is whole + num / (2 * Scala), whole in halves; the result is
\* an integer, returned in halves.
MathRound(halves, num) ==
  LET q   == (halves + 1) \div 2
      rem == (halves + 1) % 2
  IN  2 * (q + ((rem * Scala + num) \div (2 * Scala)))

\* k * risultato - atteso in the place of k * (risultato - atteso).
calcolaELOSenzaParentesi(eloA, eloB, risultato, k) ==
  MathRound(eloA, 2 * (k * risultato * Scala - Atteso(eloA, eloB)))

\* database.js:357-360.  eloA, eloB and the result in halves; risultato is
\* 0 or 1; k an integer.
calcolaELO(eloA, eloB, risultato, k) ==
  MathRound(eloA, 2 * k * (risultato * Scala - Atteso(eloA, eloB)))

\* The comparison inverted.
RisultatoInvertito(vincitore, squadra) == IF vincitore = squadra THEN 0 ELSE 1

\* Both teams treated as the winner.
RisultatoSempreUno(vincitore, squadra) == 1

\* database.js:291-292, 303, 317: vincitore === n ? 1 : 0
Risultato(vincitore, squadra) == IF vincitore = squadra THEN 1 ELSE 0

\* database.js:286-287: (eloMap[a] + eloMap[b]) / 2, in halves.
EloSquadra(eloMap, squadra) == eloMap[squadra[1]] + eloMap[squadra[2]]

\* database.js:294-298: the delta of squadra `n` (1 or 2), in halves.
DeltaElo(eloMap, squadra1, squadra2, vincitore, n) ==
  LET mia   == IF n = 1 THEN squadra1 ELSE squadra2
      altra == IF n = 1 THEN squadra2 ELSE squadra1
  IN  calcolaELO(EloSquadra(eloMap, mia), EloSquadra(eloMap, altra),
                 Risultato(vincitore, n), FattoreK)
        - EloSquadra(eloMap, mia)

\* database.js:302, 316: nuovoElo = eloMap[giocatoreId] + deltaElo, in halves.
NuovoElo(elo, delta) == 2 * elo + delta

\* A number bound to an INT column: the store rounds a value that is not
\* an integer to the nearest one, a tie to the even neighbour (rint).
ToInt(halves) ==
  IF halves % 2 = 0 THEN halves \div 2
  ELSE LET lo == (halves - 1) \div 2
       IN  IF lo % 2 = 0 THEN lo ELSE lo + 1

\* partite = partite + ?, bound to isVincitore: a loss is not counted.
RigaSenzaSconfitta(riga, nuovoElo, isVincitore) ==
  [riga EXCEPT !.elo = ToInt(nuovoElo),
               !.partite = @ + isVincitore,
               !.vittorie = @ + isVincitore,
               !.sconfitte = @ + (1 - isVincitore)]

\* sconfitte = sconfitte + ?, bound to isVincitore instead of its
\* complement.
RigaDoppioConteggio(riga, nuovoElo, isVincitore) ==
  [riga EXCEPT !.elo = ToInt(nuovoElo),
               !.partite = @ + 1,
               !.vittorie = @ + isVincitore,
               !.sconfitte = @ + isVincitore]

\* sconfitte = sconfitte - ? in the place of sconfitte = sconfitte + ?.
RigaConSottrazione(riga, nuovoElo, isVincitore) ==
  [riga EXCEPT !.elo = ToInt(nuovoElo),
               !.partite = @ + 1,
               !.vittorie = @ + isVincitore,
               !.sconfitte = @ - (1 - isVincitore)]

\* database.js:305-312, 319-326: the row an UPDATE leaves, computed from the
\* current version of the row.
RigaAggiornata(riga, nuovoElo, isVincitore) ==
  [riga EXCEPT !.elo = ToInt(nuovoElo),
               !.partite = @ + 1,
               !.vittorie = @ + isVincitore,
               !.sconfitte = @ + (1 - isVincitore)]

\* database.js:179: the row createGiocatore inserts; database.js:128 with
\* the column defaults of database.js:71-74 gives the same for a sample.
NuovoGiocatore(nome, ruolo) ==
  [nome |-> nome, ruolo |-> ruolo, elo |-> EloIniziale,
   partite |-> 0, vittorie |-> 0, sconfitte |-> 0]

(* ------------------------------- inputs ------------------------------- *)

\* The rows insertSampleData inserts (database.js:117-124), in order.
SamplePlayers ==
  << <<"Mario", "portiere">>, <<"Luigi", "attaccante">>,
     <<"Paolo", "portiere">>, <<"Marco", "attaccante">>,
     <<"Giovanni", "portiere">>, <<"Luca", "attaccante">> >>

\* Names and roles createGiocatore is called with: a new name, and one that
\* differs from a sample name only by case.
NuoviGiocatori == { <<"Anna", "attaccante">>, <<"mario", "portiere">> }

\* LOWER() of MySQL on the names in use (database.js:170).
Lower(nome) ==
  CASE nome = "Mario"    -> "mario"
    [] nome = "Luigi"    -> "luigi"
    [] nome = "Paolo"    -> "paolo"
    [] nome = "Marco"    -> "marco"
    [] nome = "Giovanni" -> "giovanni"
    [] nome = "Luca"     -> "luca"
    [] nome = "Anna"     -> "anna"
    [] nome = "Bruno"    -> "bruno"
    [] OTHER             -> nome

\* Rosters createPartita is called with: the first four sample players, and
\* a roster that shares exactly player 1 with it and names player 7, who
\* exists only once createGiocatore has added a seventh row.
Rosters ==
  { << <<1, 2>>, <<3, 4>> >>,
    << <<1, 5>>, <<6, 7>> >> }

Vincitori == {1, 2}

\* Rosters that name a player more than once, within a team, across the
\* teams, in both ways and four times, next to one that does not.
RostersDoppi ==
  { << <<1, 1>>, <<3, 4>> >>,
    << <<1, 2>>, <<2, 4>> >>,
    << <<1, 2>>, <<1, 2>> >>,
    << <<1, 1>>, <<1, 1>> >>,
    << <<1, 2>>, <<3, 4>> >> }

\* Two rosters with no player in common; players 7 and 8 are rows added by
\* createGiocatore.
RostersDisgiunti ==
  { << <<1, 2>>, <<3, 4>> >>,
    << <<5, 6>>, <<7, 8>> >> }

\* Names and roles two concurrent calls of createGiocatore are made with:
\* new names, equal ignoring case.
NomiOmonimi == { <<"Anna", "attaccante">>, <<"anna", "portiere">> }

\* The same four players with the teams exchanged: the UPDATEs of the two
\* calls lock the rows in opposite orders.
RostersOpposti ==
  { << <<1, 2>>, <<3, 4>> >>,
    << <<3, 4>>, <<1, 2>> >> }

\* One roster: concurrent calls with it need the same four rows.
RostersStessi == { << <<1, 2>>, <<3, 4>> >> }

\* Concurrent invocations of createPartita.
Calls == {"c1", "c2"}

\* process.env.NODE_ENV
Ambienti == {"production", "development"}

\* What the driver hands over for a JSON column: the document already
\* parsed when the store reports the column as JSON, its text when the
\* store keeps JSON in a text column.
Driver == {"documento", "testo"}

\* Error messages (the accents of the source dropped).
ErrSconosciuto == "Uno o piu giocatori non esistono"
ErrEsistente == "Giocatore gia esistente"
ErrProduzione == "Reset database non consentito in produzione"
ErrDuplicato == "ER_DUP_ENTRY"
ErrStore == "store error"
ErrRollback == "rollback error"
ErrEnd == "end error"
ErrSintassi == "SyntaxError"
ErrDeadlock == "ER_LOCK_DEADLOCK"

(* -------------------------------- state ------------------------------- *)

VARIABLES
  giocatori,      \* committed rows of table giocatori: id -> row
  nextId,         \* AUTO_INCREMENT of giocatori
  partite,        \* committed rows of table partite, in commit order
  nextPartitaId,  \* AUTO_INCREMENT of partite
  adesso,         \* NOW() of the store
  pc,             \* per call: where createPartita stands
  args,           \* per call: <<squadra1, squadra2, vincitore>>
  inTx,           \* per call: its connection has an open transaction
  righe,          \* per call: giocatori.length of the rating read, -1 before
  eloMap,         \* per call: id -> elo as read (database.js:280-283)
  delta,          \* per call: <<deltaElo1, deltaElo2>> in halves
  idx,            \* per call: UPDATEs executed
  scritti,        \* per call: uncommitted row versions, id -> row
  inserita,       \* per call: uncommitted partite rows
  insertId,       \* per call: result.insertId of the INSERT, 0 before
  errore,         \* per call: the error in flight or thrown, "" if none
  ritorno,        \* per call: the value returned, <<>> if none
  esito,          \* per call: "" | "ok" | "error" once the call has ended
  durable,        \* per call: its writes that reached the committed store
  avviate,        \* createPartita invocations started
  creazione,      \* the createGiocatore in progress
  reset,          \* the resetDatabase in progress, env its NODE_ENV
  calcolo,        \* a call of calcolaELO: its arguments and its result
  lettura,        \* the read operation in progress and what it has read
  richiesta,      \* the POST /partite request in progress and its answer
  seconda         \* a second createGiocatore in progress

storeVars == <<giocatori, nextId, partite, nextPartitaId, adesso>>
callVars == <<pc, args, inTx, righe, eloMap, delta, idx, scritti, inserita,
               insertId, errore, ritorno, esito, durable, avviate>>
otherVars == <<creazione, reset>>
extraVars == <<richiesta, seconda>>
vars == <<storeVars, callVars, otherVars, calcolo, lettura, extraVars>>

NoArgs == << <<0, 0>>, <<0, 0>>, 0 >>
Vuoto == [p \in {} |-> 0]

\* The store after initialize() on an empty database (database.js:28-33):
\* the six sample players, no match.
SampleStore ==
  [i \in 1..Len(SamplePlayers) |->
     NuovoGiocatore(SamplePlayers[i][1], SamplePlayers[i][2])]

NoCalcolo ==
  [eloA |-> 0, eloB |-> 0, risultato |-> 0, k |-> 0, fatto |-> FALSE,
   nuovo |-> 0]

\* No read operation in progress.
NoLettura ==
  [op |-> "", pc |-> "idle", giocatori |-> <<>>, righe |-> <<>>,
   partite |-> <<>>, conteggi |-> <<>>, errore |-> ""]

\* No request in progress; n requests have been answered.
NoRichiesta(n) ==
  [pc |-> "idle", body |-> <<>>, invocato |-> FALSE, status |-> 0,
   error |-> "", n |-> n]

\* No createGiocatore in progress.
NoCreazione == [pc |-> "idle", nome |-> "", ruolo |-> "", errore |-> ""]

InitStore ==
  /\ lettura = NoLettura
  /\ richiesta = NoRichiesta(0)
  /\ seconda = NoCreazione
  /\ giocatori = SampleStore
  /\ nextId = Len(SamplePlayers) + 1
  /\ partite = <<>>
  /\ nextPartitaId = 1
  /\ adesso = 0
  /\ pc = [c \in Calls |-> "idle"]
  /\ args = [c \in Calls |-> NoArgs]
  /\ inTx = [c \in Calls |-> FALSE]
  /\ righe = [c \in Calls |-> -1]
  /\ eloMap = [c \in Calls |-> Vuoto]
  /\ delta = [c \in Calls |-> <<0, 0>>]
  /\ idx = [c \in Calls |-> 0]
  /\ scritti = [c \in Calls |-> Vuoto]
  /\ inserita = [c \in Calls |-> <<>>]
  /\ insertId = [c \in Calls |-> 0]
  /\ errore = [c \in Calls |-> ""]
  /\ ritorno = [c \in Calls |-> <<>>]
  /\ esito = [c \in Calls |-> ""]
  /\ durable = [c \in Calls |-> 0]
  /\ avviate = 0
  /\ creazione = [pc |-> "idle", nome |-> "", ruolo |-> "", errore |-> ""]
  /\ reset = [pc |-> "idle", env |-> "", i |-> 0, attesa |-> FALSE,
              errore |-> ""]

Init == InitStore /\ calcolo = NoCalcolo

\* The store after two calls of createGiocatore on the sample store
\* (database.js:178-181): rows 7 and 8.
StoreOtto ==
  [p \in 1..(Len(SamplePlayers) + 2) |->
     IF p <= Len(SamplePlayers) THEN SampleStore[p]
     ELSE IF p = Len(SamplePlayers) + 1
     THEN NuovoGiocatore("Anna", "attaccante")
     ELSE NuovoGiocatore("Bruno", "portiere")]

\* No call in progress, on a store of eight players and no match.
InitOtto ==
  /\ lettura = NoLettura
  /\ richiesta = NoRichiesta(0)
  /\ seconda = NoCreazione
  /\ calcolo = NoCalcolo
  /\ giocatori = StoreOtto
  /\ nextId = Len(SamplePlayers) + 3
  /\ partite = <<>>
  /\ nextPartitaId = 1
  /\ adesso = 0
  /\ pc = [c \in Calls |-> "idle"]
  /\ args = [c \in Calls |-> NoArgs]
  /\ inTx = [c \in Calls |-> FALSE]
  /\ righe = [c \in Calls |-> -1]
  /\ eloMap = [c \in Calls |-> Vuoto]
  /\ delta = [c \in Calls |-> <<0, 0>>]
  /\ idx = [c \in Calls |-> 0]
  /\ scritti = [c \in Calls |-> Vuoto]
  /\ inserita = [c \in Calls |-> <<>>]
  /\ insertId = [c \in Calls |-> 0]
  /\ errore = [c \in Calls |-> ""]
  /\ ritorno = [c \in Calls |-> <<>>]
  /\ esito = [c \in Calls |-> ""]
  /\ durable = [c \in Calls |-> 0]
  /\ avviate = 0
  /\ creazione = [pc |-> "idle", nome |-> "", ruolo |-> "", errore |-> ""]
  /\ reset = [pc |-> "idle", env |-> "", i |-> 0, attesa |-> FALSE,
              errore |-> ""]

(* ------------------------- the store's locking ------------------------ *)

\* The four identifiers in the order the UPDATEs run (database.js:268,
\* 301, 315).
TuttiGiocatori(c) == args[c][1] \o args[c][2]

\* Row `p` of giocatori is X-locked by an open transaction other than c's.
Bloccata(c, p) ==
  \E d \in Calls \ {c} : inTx[d] /\ p \in DOMAIN scritti[d]

\* An open transaction has used the table (it holds its metadata lock
\* until it ends), so a TRUNCATE of it waits.
UsaGiocatori(c) == inTx[c] /\ righe[c] >= 0
UsaPartite(c)   == inTx[c] /\ inserita[c] # <<>>

\* A TRUNCATE of the table (reset.pc names it) waits for the metadata lock:
\* a statement that needs the lock anew queues behind it.
TruncateInAttesa(passo) == reset.attesa /\ reset.pc = passo

\* An UPDATE without its WHERE id = ?: a transaction that has written
\* counts a match for every row it has not written.
ApplicaSenzaWhere(tabella, buffer) ==
  [p \in DOMAIN tabella |->
     IF p \in DOMAIN buffer THEN buffer[p]
     ELSE IF DOMAIN buffer = {} THEN tabella[p]
     ELSE [tabella[p] EXCEPT !.partite = @ + 1]]

\* The rows of `buffer` written over those of `tabella`.
Applica(tabella, buffer) ==
  [p \in DOMAIN tabella |->
     IF p \in DOMAIN buffer THEN buffer[p] ELSE tabella[p]]

(* ---------------------------- createPartita --------------------------- *)

\* A slot holds no call in progress.
Libero(c) == pc[c] \in {"idle", "done"}

\* database.js:260: the call is made, in the first free slot (what the slot
\* kept of an ended call is dropped); createConnection is issued.
CreatePartita(c, squadra1, squadra2, vincitore) ==
  /\ Libero(c)
  /\ c = "c1" \/ ~Libero("c1")
  /\ avviate' = avviate + 1
  /\ pc' = [pc EXCEPT ![c] = "connect"]
  /\ args' = [args EXCEPT ![c] = <<squadra1, squadra2, vincitore>>]
  /\ righe' = [righe EXCEPT ![c] = -1]
  /\ eloMap' = [eloMap EXCEPT ![c] = Vuoto]
  /\ delta' = [delta EXCEPT ![c] = <<0, 0>>]
  /\ idx' = [idx EXCEPT ![c] = 0]
  /\ insertId' = [insertId EXCEPT ![c] = 0]
  /\ errore' = [errore EXCEPT ![c] = ""]
  /\ ritorno' = [ritorno EXCEPT ![c] = <<>>]
  /\ esito' = [esito EXCEPT ![c] = ""]
  /\ durable' = [durable EXCEPT ![c] = 0]
  /\ UNCHANGED <<storeVars, otherVars, inTx, scritti, inserita>>

\* database.js:262: the connection of this call is open.
CreateConnection(c) ==
  /\ pc[c] = "connect"
  /\ pc' = [pc EXCEPT ![c] = "begin"]
  /\ UNCHANGED <<storeVars, otherVars, args, inTx, righe, eloMap, delta, idx,
                 scritti, inserita, errore, ritorno, esito, durable, avviate>>
  /\ UNCHANGED insertId

\* beginTransaction left out: every statement of the call commits at once.
BeginTransactionOmesso(c) ==
  /\ pc[c] = "begin"
  /\ pc' = [pc EXCEPT ![c] = "select"]
  /\ UNCHANGED <<storeVars, otherVars, args, inTx, righe, eloMap, delta, idx,
                 scritti, inserita, insertId, errore, ritorno, esito,
                 durable, avviate>>

\* database.js:265
BeginTransaction(c) ==
  /\ pc[c] = "begin"
  /\ inTx' = [inTx EXCEPT ![c] = TRUE]
  /\ pc' = [pc EXCEPT ![c] = "select"]
  /\ UNCHANGED <<storeVars, otherVars, args, righe, eloMap, delta, idx,
                 scritti, inserita, errore, ritorno, esito, durable, avviate>>
  /\ UNCHANGED insertId

\* database.js:270-273: SELECT id, elo FROM giocatori WHERE id IN (...), a
\* consistent read of the committed rows.
Letti(c) ==
  LET ids == {TuttiGiocatori(c)[i] : i \in 1..Len(TuttiGiocatori(c))}
           \cap DOMAIN giocatori
  IN  [p \in ids |-> giocatori[p].elo]

\* giocatori.length === 0 in the place of giocatori.length !== 4.
RigheAlmenoUna(n) == n >= 1

\* database.js:275: giocatori.length !== 4 is false
RigheValide(n) == n = GiocatoriPerPartita

\* database.js:270-298: the rating read, the check of the row count and
\* the computation of the two deltas.
SelectElo(c) ==
  /\ pc[c] = "select"
  /\ ~TruncateInAttesa("truncG")
  /\ LET m == Letti(c)
         n == Cardinality(DOMAIN m)
     IN  /\ righe' = [righe EXCEPT ![c] = n]
         /\ eloMap' = [eloMap EXCEPT ![c] = m]
         /\ IF RigheValide(n)
            THEN /\ delta' = [delta EXCEPT ![c] =
                        <<DeltaElo(m, args[c][1], args[c][2], args[c][3], 1),
                          DeltaElo(m, args[c][1], args[c][2], args[c][3], 2)>>]
                 /\ pc' = [pc EXCEPT ![c] = "update"]
                 /\ UNCHANGED errore
            ELSE /\ errore' = [errore EXCEPT ![c] = ErrSconosciuto]
                 /\ pc' = [pc EXCEPT ![c] = "catch"]
                 /\ UNCHANGED delta
  /\ UNCHANGED <<storeVars, otherVars, args, inTx, idx, scritti, inserita,
                 ritorno, esito, durable, avviate>>
  /\ UNCHANGED insertId

\* database.js:301-327: the next UPDATE of the two loops.  It waits for the
\* row lock, then rewrites the current version of the row; outside a
\* transaction the statement commits at once.
UpdateGiocatore(c) ==
  /\ pc[c] = "update"
  /\ LET i  == idx[c] + 1
         p  == TuttiGiocatori(c)[i]
         n  == IF i <= 2 THEN 1 ELSE 2
         nuovoElo == NuovoElo(eloMap[c][p], delta[c][n])
         isVincitore == Risultato(args[c][3], n)
         corrente == IF p \in DOMAIN scritti[c] THEN scritti[c][p]
                     ELSE giocatori[p]
     IN  /\ ~Bloccata(c, p)
         /\ idx' = [idx EXCEPT ![c] = i]
         /\ pc' = [pc EXCEPT ![c] =
                     IF i = Len(TuttiGiocatori(c)) THEN "insert" ELSE "update"]
         /\ IF p \notin DOMAIN giocatori
            THEN UNCHANGED <<giocatori, scritti, durable>>
            ELSE IF inTx[c]
            THEN /\ scritti' = [scritti EXCEPT ![c] =
                       [q \in DOMAIN @ \cup {p} |->
                          IF q = p
                          THEN RigaAggiornata(corrente, nuovoElo, isVincitore)
                          ELSE @[q]]]
                 /\ UNCHANGED <<giocatori, durable>>
            ELSE /\ giocatori' = [giocatori EXCEPT ![p] =
                       RigaAggiornata(corrente, nuovoElo, isVincitore)]
                 /\ durable' = [durable EXCEPT ![c] = @ + 1]
                 /\ UNCHANGED scritti
  /\ UNCHANGED <<nextId, partite, nextPartitaId, adesso, otherVars, args,
                 inTx, righe, eloMap, delta, inserita, errore, ritorno,
                 esito, avviate>>
  /\ UNCHANGED insertId

\* database.js:330-333: INSERT INTO partite ... NOW()
InsertPartita(c) ==
  /\ pc[c] = "insert"
  /\ inTx[c] \/ ~TruncateInAttesa("truncP")
  /\ LET riga == [id |-> nextPartitaId, squadra1 |-> args[c][1],
                  squadra2 |-> args[c][2], vincitore |-> args[c][3],
                  data |-> adesso]
     IN  IF inTx[c]
         THEN /\ inserita' = [inserita EXCEPT ![c] = Append(@, riga)]
              /\ UNCHANGED <<partite, durable>>
         ELSE /\ partite' = Append(partite, riga)
              /\ durable' = [durable EXCEPT ![c] = @ + 1]
              /\ UNCHANGED inserita
  /\ nextPartitaId' = nextPartitaId + 1
  /\ insertId' = [insertId EXCEPT ![c] = nextPartitaId]
  /\ pc' = [pc EXCEPT ![c] = "commit"]
  /\ UNCHANGED <<giocatori, nextId, adesso, otherVars, args, inTx, righe,
                 eloMap, delta, idx, scritti, errore, ritorno, esito,
                 avviate>>

\* The open transaction of c becomes durable.
Committed(c) ==
  /\ giocatori' = Applica(giocatori, scritti[c])
  /\ partite' = partite \o inserita[c]
  /\ durable' = [durable EXCEPT ![c] =
                   @ + Cardinality(DOMAIN scritti[c]) + Len(inserita[c])]
  /\ scritti' = [scritti EXCEPT ![c] = Vuoto]
  /\ inserita' = [inserita EXCEPT ![c] = <<>>]
  /\ inTx' = [inTx EXCEPT ![c] = FALSE]

\* The open transaction of c, if any, is undone.
RolledBack(c) ==
  /\ scritti' = [scritti EXCEPT ![c] = Vuoto]
  /\ inserita' = [inserita EXCEPT ![c] = <<>>]
  /\ inTx' = [inTx EXCEPT ![c] = FALSE]

\* database.js:335-346: commit, then the value to return is built.
Commit(c) ==
  /\ pc[c] = "commit"
  /\ Committed(c)
  /\ ritorno' = [ritorno EXCEPT ![c] =
                   <<insertId[c], delta[c][1], delta[c][2]>>]
  /\ pc' = [pc EXCEPT ![c] = "finally"]
  /\ UNCHANGED <<nextId, nextPartitaId, adesso, otherVars, args, righe,
                 eloMap, delta, idx, errore, esito, avviate>>
  /\ UNCHANGED insertId

\* The catch block without its `throw error`: the call returns normally.
RollbackSenzaThrow(c) ==
  /\ pc[c] = "catch"
  /\ RolledBack(c)
  /\ errore' = [errore EXCEPT ![c] = ""]
  /\ pc' = [pc EXCEPT ![c] = "finally"]
  /\ UNCHANGED <<storeVars, otherVars, args, righe, eloMap, delta, idx,
                 insertId, ritorno, esito, durable, avviate>>

\* database.js:348-351: the catch block: rollback, then the error is
\* thrown again.
Rollback(c) ==
  /\ pc[c] = "catch"
  /\ RolledBack(c)
  /\ pc' = [pc EXCEPT ![c] = "finally"]
  /\ UNCHANGED <<storeVars, otherVars, args, righe, eloMap, delta, idx,
                 errore, ritorno, esito, durable, avviate>>
  /\ UNCHANGED insertId

\* The locals of createPartita go out of scope when the call ends.
Scope(c) ==
  /\ righe' = [righe EXCEPT ![c] = -1]
  /\ eloMap' = [eloMap EXCEPT ![c] = Vuoto]
  /\ delta' = [delta EXCEPT ![c] = <<0, 0>>]
  /\ idx' = [idx EXCEPT ![c] = 0]
  /\ insertId' = [insertId EXCEPT ![c] = 0]

\* The finally block without connection.end(): the connection, and a
\* transaction still open on it, outlive the call.
EndSenzaChiusura(c) ==
  /\ pc[c] = "finally"
  /\ Scope(c)
  /\ esito' = [esito EXCEPT ![c] = IF errore[c] = "" THEN "ok" ELSE "error"]
  /\ pc' = [pc EXCEPT ![c] = "done"]
  /\ UNCHANGED <<storeVars, otherVars, args, errore, ritorno, durable,
                 avviate, inTx, scritti, inserita>>

\* database.js:352-354: the finally block closes the connection (the store
\* undoes a transaction still open on it); the call then ends with the
\* value or the error in flight.
End(c) ==
  /\ pc[c] = "finally"
  /\ RolledBack(c)
  /\ Scope(c)
  /\ esito' = [esito EXCEPT ![c] = IF errore[c] = "" THEN "ok" ELSE "error"]
  /\ pc' = [pc EXCEPT ![c] = "done"]
  /\ UNCHANGED <<storeVars, otherVars, args, errore, ritorno, durable,
                 avviate>>

(* ------------------- failures of the store or the link ---------------- *)

\* database.js:262: createConnection rejects; the call throws before its
\* try block is entered.
FailConnect(c) ==
  /\ pc[c] = "connect"
  /\ errore' = [errore EXCEPT ![c] = ErrStore]
  /\ esito' = [esito EXCEPT ![c] = "error"]
  /\ pc' = [pc EXCEPT ![c] = "done"]
  /\ UNCHANGED <<storeVars, otherVars, args, inTx, righe, eloMap, delta, idx,
                 scritti, inserita, insertId, ritorno, durable, avviate>>

\* database.js:265-335: an awaited statement of the try block rejects
\* without having had an effect; control passes to the catch block.
FailStatement(c) ==
  /\ pc[c] \in {"begin", "select", "update", "insert", "commit"}
  /\ errore' = [errore EXCEPT ![c] = ErrStore]
  /\ pc' = [pc EXCEPT ![c] = "catch"]
  /\ UNCHANGED <<storeVars, otherVars, args, inTx, righe, eloMap, delta, idx,
                 scritti, inserita, insertId, ritorno, esito, durable,
                 avviate>>

\* database.js:335: the store commits but its answer never arrives: commit
\* rejects although the transaction is durable.
CommitLost(c) ==
  /\ pc[c] = "commit"
  /\ Committed(c)
  /\ errore' = [errore EXCEPT ![c] = ErrStore]
  /\ pc' = [pc EXCEPT ![c] = "catch"]
  /\ UNCHANGED <<nextId, nextPartitaId, adesso, otherVars, args, righe,
                 eloMap, delta, idx, insertId, ritorno, esito, avviate>>

\* database.js:349: rollback rejects; its error replaces the one caught.
\* The transaction stays open until the connection is closed.
FailRollback(c) ==
  /\ pc[c] = "catch"
  /\ errore' = [errore EXCEPT ![c] = ErrRollback]
  /\ pc' = [pc EXCEPT ![c] = "finally"]
  /\ UNCHANGED <<storeVars, otherVars, args, inTx, righe, eloMap, delta, idx,
                 scritti, inserita, insertId, ritorno, esito, durable,
                 avviate>>

\* database.js:353: end rejects; the error thrown by the finally block
\* replaces the value being returned or the error in flight.
FailEnd(c) ==
  /\ pc[c] = "finally"
  /\ RolledBack(c)
  /\ Scope(c)
  /\ errore' = [errore EXCEPT ![c] = ErrEnd]
  /\ ritorno' = [ritorno EXCEPT ![c] = <<>>]
  /\ esito' = [esito EXCEPT ![c] = "error"]
  /\ pc' = [pc EXCEPT ![c] = "done"]
  /\ UNCHANGED <<storeVars, otherVars, args, durable, avviate>>

(* ------------------------- lock wait cycles --------------------------- *)

\* The next UPDATE of c waits for a row lock held by the transaction of d.
Aspetta(c, d) ==
  /\ pc[c] = "update"
  /\ inTx[d]
  /\ TuttiGiocatori(c)[idx[c] + 1] \in DOMAIN scritti[d]

\* The store without deadlock detection and without a lock wait timeout:
\* the two transactions wait for each other for ever.
DeadlockNonRilevato(c) ==
  /\ FALSE
  /\ UNCHANGED vars

\* database.js:305-312, 319-326, 348-351: the transactions of c and of
\* another call wait for each other; the store detects the cycle, rolls the
\* transaction of c back and fails its UPDATE, and control passes to the
\* catch block.
Deadlock(c) ==
  /\ \E d \in Calls \ {c} : Aspetta(c, d) /\ Aspetta(d, c)
  /\ RolledBack(c)
  /\ errore' = [errore EXCEPT ![c] = ErrDeadlock]
  /\ pc' = [pc EXCEPT ![c] = "catch"]
  /\ UNCHANGED <<storeVars, otherVars, args, righe, eloMap, delta, idx,
                 insertId, ritorno, esito, durable, avviate>>

(* ---------------------------- createGiocatore ------------------------- *)

\* A statement sent on the shared connection waits behind a TRUNCATE that
\* is itself waiting for a metadata lock.
ConnessioneLibera == ~reset.attesa

\* Rows whose nome equals `nome` under the case-insensitive comparison of
\* database.js:170 and of the UNIQUE index of database.js:69, 82.
Omonimi(nome) ==
  {p \in DOMAIN giocatori : Lower(giocatori[p].nome) = Lower(nome)}

\* The new row written under the id of the last row, which it replaces.
InserisciSovrascrivendo(nome, ruolo) ==
  [p \in DOMAIN giocatori |->
     IF p = nextId - 1 THEN NuovoGiocatore(nome, ruolo) ELSE giocatori[p]]

\* The table with one more row, under the next AUTO_INCREMENT value.
Inserisci(nome, ruolo) ==
  [p \in DOMAIN giocatori \cup {nextId} |->
     IF p = nextId THEN NuovoGiocatore(nome, ruolo) ELSE giocatori[p]]

\* createGiocatore without its existence check.
CreateGiocatoreSenzaControllo(nome, ruolo) ==
  /\ creazione.pc = "idle"
  /\ nextId <= MaxPlayers
  /\ ConnessioneLibera
  /\ creazione' = [pc |-> "insert", nome |-> nome, ruolo |-> ruolo,
                   errore |-> ""]
  /\ UNCHANGED <<storeVars, callVars, reset>>

\* database.js:166-176: the call and its existence check.
CreateGiocatore(nome, ruolo) ==
  /\ creazione.pc = "idle"
  /\ nextId <= MaxPlayers
  /\ ConnessioneLibera
  /\ creazione' =
       IF Omonimi(nome) # {}
       THEN [pc |-> "done", nome |-> nome, ruolo |-> ruolo,
             errore |-> ErrEsistente]
       ELSE [pc |-> "insert", nome |-> nome, ruolo |-> ruolo, errore |-> ""]
  /\ UNCHANGED <<storeVars, callVars, reset>>

\* database.js:178-191: the INSERT; the UNIQUE index rejects a name that
\* has appeared since the check.
InsertGiocatore ==
  /\ creazione.pc = "insert"
  /\ ConnessioneLibera
  /\ IF Omonimi(creazione.nome) # {}
     THEN /\ creazione' = [creazione EXCEPT !.pc = "done",
                                            !.errore = ErrDuplicato]
          /\ UNCHANGED giocatori
     ELSE /\ giocatori' = Inserisci(creazione.nome, creazione.ruolo)
          /\ creazione' = [creazione EXCEPT !.pc = "done"]
  /\ nextId' = nextId + 1
  /\ UNCHANGED <<partite, nextPartitaId, adesso, callVars, reset>>

\* The caller has taken the outcome of createGiocatore.
FineCreazione ==
  /\ creazione.pc = "done"
  /\ creazione' = [pc |-> "idle", nome |-> "", ruolo |-> "", errore |-> ""]
  /\ UNCHANGED <<storeVars, callVars, reset>>

\* database.js:166-176: a second call of createGiocatore, made while the
\* first is in progress or not, and its existence check.
CreateGiocatoreSeconda(nome, ruolo) ==
  /\ seconda.pc = "idle"
  /\ nextId <= MaxPlayers
  /\ ConnessioneLibera
  /\ seconda' =
       IF Omonimi(nome) # {}
       THEN [pc |-> "done", nome |-> nome, ruolo |-> ruolo,
             errore |-> ErrEsistente]
       ELSE [pc |-> "insert", nome |-> nome, ruolo |-> ruolo, errore |-> ""]
  /\ UNCHANGED <<storeVars, callVars, otherVars>>

\* database.js:178-191: the INSERT of the second call.
InsertGiocatoreSeconda ==
  /\ seconda.pc = "insert"
  /\ ConnessioneLibera
  /\ IF Omonimi(seconda.nome) # {}
     THEN /\ seconda' = [seconda EXCEPT !.pc = "done",
                                        !.errore = ErrDuplicato]
          /\ UNCHANGED giocatori
     ELSE /\ giocatori' = Inserisci(seconda.nome, seconda.ruolo)
          /\ seconda' = [seconda EXCEPT !.pc = "done"]
  /\ nextId' = nextId + 1
  /\ UNCHANGED <<partite, nextPartitaId, adesso, callVars, otherVars>>

\* The caller has taken the outcome of the second createGiocatore.
FineCreazioneSeconda ==
  /\ seconda.pc = "done"
  /\ seconda' = NoCreazione
  /\ UNCHANGED <<storeVars, callVars, otherVars>>

(* ----------------------------- resetDatabase -------------------------- *)

\* resetDatabase without its guard on NODE_ENV.
ResetDatabaseSenzaGuardia(env) ==
  /\ reset.pc = "idle"
  /\ reset' = [reset EXCEPT !.pc = "truncP", !.env = env]
  /\ UNCHANGED <<storeVars, callVars, creazione>>

\* database.js:413-420: the guard on NODE_ENV, then SET FOREIGN_KEY_CHECKS.
ResetDatabase(env) ==
  /\ reset.pc = "idle"
  /\ reset' = IF env = "production"
              THEN [reset EXCEPT !.pc = "done", !.env = env,
                                 !.errore = ErrProduzione]
              ELSE [reset EXCEPT !.pc = "truncP", !.env = env]
  /\ UNCHANGED <<storeVars, callVars, creazione>>

\* A TRUNCATE has reached the store and waits for the metadata lock.
AttendeTruncate ==
  /\ ~reset.attesa
  /\ \/ reset.pc = "truncP" /\ \E c \in Calls : UsaPartite(c)
     \/ reset.pc = "truncG" /\ \E c \in Calls : UsaGiocatori(c)
  /\ reset' = [reset EXCEPT !.attesa = TRUE]
  /\ UNCHANGED <<storeVars, callVars, creazione>>

\* database.js:421
TruncatePartite ==
  /\ reset.pc = "truncP"
  /\ \A c \in Calls : ~UsaPartite(c)
  /\ partite' = <<>>
  /\ nextPartitaId' = 1
  /\ reset' = [reset EXCEPT !.pc = "truncG", !.attesa = FALSE]
  /\ UNCHANGED <<giocatori, nextId, adesso, callVars, creazione>>

\* database.js:422-423
TruncateGiocatori ==
  /\ reset.pc = "truncG"
  /\ \A c \in Calls : ~UsaGiocatori(c)
  /\ giocatori' = Vuoto
  /\ nextId' = 1
  /\ reset' = [reset EXCEPT !.pc = "count", !.attesa = FALSE]
  /\ UNCHANGED <<partite, nextPartitaId, adesso, callVars, creazione>>

\* database.js:426, 113-116: insertSampleData counts the rows.
ContaGiocatori ==
  /\ reset.pc = "count"
  /\ reset' = IF Cardinality(DOMAIN giocatori) = 0
              THEN [reset EXCEPT !.pc = "sample", !.i = 1]
              ELSE [reset EXCEPT !.pc = "done"]
  /\ UNCHANGED <<storeVars, callVars, creazione>>

\* database.js:126-138: the next INSERT of the loop; an error ends the
\* loop and is swallowed.
InsertSample ==
  /\ reset.pc = "sample"
  /\ LET nome  == SamplePlayers[reset.i][1]
         ruolo == SamplePlayers[reset.i][2]
     IN  IF Omonimi(nome) # {}
         THEN /\ reset' = [reset EXCEPT !.pc = "done", !.i = 0]
              /\ UNCHANGED giocatori
         ELSE /\ giocatori' = Inserisci(nome, ruolo)
              /\ reset' = IF reset.i = Len(SamplePlayers)
                          THEN [reset EXCEPT !.pc = "done", !.i = 0]
                          ELSE [reset EXCEPT !.i = @ + 1]
  /\ nextId' = nextId + 1
  /\ UNCHANGED <<partite, nextPartitaId, adesso, callVars, creazione>>

\* database.js:428-433: resetDatabase returns or throws.
FineReset ==
  /\ reset.pc = "done"
  /\ reset' = [pc |-> "idle", env |-> "", i |-> 0, attesa |-> FALSE,
               errore |-> ""]
  /\ UNCHANGED <<storeVars, callVars, creazione>>

(* --------------------------- read operations -------------------------- *)

\* The names in use under the collation of database.js:82, which compares
\* without regard to case, in ascending order.
Collazione ==
  <<"anna", "bruno", "giovanni", "luca", "luigi", "marco", "mario",
    "paolo">>

\* The place of a name in that order.
Peso(nome) == CHOOSE i \in 1..Len(Collazione) : Collazione[i] = Lower(nome)

\* ORDER BY elo ASC in the place of ORDER BY elo DESC.
PrecedeCrescente(a, b) ==
  \/ a.elo < b.elo
  \/ a.elo = b.elo /\ Peso(a.nome) < Peso(b.nome)

\* database.js:147: ORDER BY elo DESC, nome ASC puts row a before row b.
Precede(a, b) ==
  \/ a.elo > b.elo
  \/ a.elo = b.elo /\ Peso(a.nome) < Peso(b.nome)

\* A read that sees the row versions of open transactions (READ
\* UNCOMMITTED): the row as the transaction that wrote it last left it.
RigaGiocatoreNonCommitted(p) ==
  LET riga == IF \E c \in Calls : p \in DOMAIN scritti[c]
              THEN scritti[CHOOSE c \in Calls : p \in DOMAIN scritti[c]][p]
              ELSE giocatori[p]
  IN  [id |-> p, nome |-> riga.nome, ruolo |-> riga.ruolo,
       elo |-> riga.elo, partite |-> riga.partite,
       vittorie |-> riga.vittorie, sconfitte |-> riga.sconfitte]

\* database.js:150-159: a row as getGiocatori returns it.
RigaGiocatore(p) ==
  [id |-> p, nome |-> giocatori[p].nome, ruolo |-> giocatori[p].ruolo,
   elo |-> giocatori[p].elo, partite |-> giocatori[p].partite,
   vittorie |-> giocatori[p].vittorie, sconfitte |-> giocatori[p].sconfitte]

\* database.js:143-148: the committed rows of giocatori in the order of the
\* ORDER BY clause (names are unique under the collation, so the order is
\* total).
SelectGiocatori ==
  LET prima(p) == {q \in DOMAIN giocatori :
                     Precede(giocatori[q], giocatori[p])}
  IN  [i \in 1..Cardinality(DOMAIN giocatori) |->
         RigaGiocatore(CHOOSE p \in DOMAIN giocatori :
                         Cardinality(prima(p)) = i - 1)]

Permutazioni(n) ==
  {f \in [1..n -> 1..n] : \A i, j \in 1..n : i # j => f[i] # f[j]}

\* database.js:200-205: the committed rows of partite under ORDER BY data
\* DESC; rows of the same second come in any order.
SelectPartite ==
  LET n == Len(partite)
  IN  {[i \in 1..n |-> partite[f[i]]] :
         f \in {g \in Permutazioni(n) :
                  \A i \in 1..(n - 1) :
                    partite[g[i]].data >= partite[g[i + 1]].data}}

\* A JSON column of a row as the driver hands it over.
Colonna(driver, documento) == [tipo |-> driver, val |-> documento]

\* database.js:210-211: JSON.parse(x).  A text is parsed; a value that is
\* not a string is converted to one first, and the array [a, b] converts to
\* "a,b", which is no JSON text: SyntaxError.
JsonParse(x) == [ok |-> x.tipo = "testo", val |-> x.val]

\* database.js:240-253: nomiMap, id -> nome of the rows found.
GetNomiGiocatori(ids) ==
  [p \in {ids[i] : i \in 1..Len(ids)} \cap DOMAIN giocatori |->
     giocatori[p].nome]

\* nomiGiocatori[id]
NomeDi(nomiMap, p) ==
  IF p \in DOMAIN nomiMap THEN nomiMap[p] ELSE "undefined"

\* database.js:141-164
GetGiocatori ==
  /\ lettura.pc = "idle"
  /\ ConnessioneLibera
  /\ lettura' = [NoLettura EXCEPT !.op = "getGiocatori", !.pc = "done",
                                  !.giocatori = SelectGiocatori]
  /\ UNCHANGED <<storeVars, callVars, otherVars>>

\* database.js:198: getPartite is called.
GetPartite ==
  /\ lettura.pc = "idle"
  /\ lettura' = [NoLettura EXCEPT !.op = "getPartite", !.pc = "partite"]
  /\ UNCHANGED <<storeVars, callVars, otherVars>>

\* database.js:391-393: exportData is called and runs getGiocatori.
ExportData ==
  /\ lettura.pc = "idle"
  /\ ConnessioneLibera
  /\ lettura' = [NoLettura EXCEPT !.op = "exportData", !.pc = "partite",
                                  !.giocatori = SelectGiocatori]
  /\ UNCHANGED <<storeVars, callVars, otherVars>>

\* database.js:200-207: the SELECT of getPartite.
SelectRighe ==
  /\ lettura.pc = "partite"
  /\ ConnessioneLibera
  /\ \E r \in SelectPartite, d \in Driver :
       lettura' =
         [lettura EXCEPT
            !.righe = [i \in 1..Len(r) |->
                         [id |-> r[i].id,
                          squadra1 |-> Colonna(d, r[i].squadra1),
                          squadra2 |-> Colonna(d, r[i].squadra2),
                          vincitore |-> r[i].vincitore,
                          data |-> r[i].data]],
            !.pc = IF Len(r) = 0 THEN "done" ELSE "nomi"]
  /\ UNCHANGED <<storeVars, callVars, otherVars>>

\* database.js:209-231: one iteration of the loop of getPartite: the two
\* JSON.parse, the names read from giocatori, the element pushed; an error
\* ends the call (database.js:234-237).
NomiPartita ==
  /\ lettura.pc = "nomi"
  /\ ConnessioneLibera
  /\ LET i  == Len(lettura.partite) + 1
         row == lettura.righe[i]
         s1 == JsonParse(row.squadra1)
         s2 == JsonParse(row.squadra2)
         nomi == GetNomiGiocatori(s1.val \o s2.val)
     IN  IF s1.ok /\ s2.ok
         THEN lettura' =
                [lettura EXCEPT
                   !.partite =
                      Append(@, [id |-> row.id, squadra1 |-> s1.val,
                                 squadra2 |-> s2.val,
                                 vincitore |-> row.vincitore,
                                 data |-> row.data,
                                 nomi_giocatori |->
                                   <<NomeDi(nomi, s1.val[1]),
                                     NomeDi(nomi, s1.val[2]),
                                     NomeDi(nomi, s2.val[1]),
                                     NomeDi(nomi, s2.val[2])>>]),
                   !.pc = IF i = Len(lettura.righe) THEN "done" ELSE "nomi"]
         ELSE lettura' = [lettura EXCEPT !.partite = <<>>, !.pc = "done",
                                         !.errore = ErrSintassi]
  /\ UNCHANGED <<storeVars, callVars, otherVars>>

\* database.js:362-370: checkHealth counts the rows of giocatori.
CheckHealth ==
  /\ lettura.pc = "idle"
  /\ ConnessioneLibera
  /\ lettura' = [NoLettura EXCEPT !.op = "checkHealth", !.pc = "conta",
                    !.conteggi = <<Cardinality(DOMAIN giocatori)>>]
  /\ UNCHANGED <<storeVars, callVars, otherVars>>

\* database.js:371-381: checkHealth counts the rows of partite and returns.
ContaPartite ==
  /\ lettura.pc = "conta"
  /\ ConnessioneLibera
  /\ lettura' = [lettura EXCEPT !.conteggi = Append(@, Len(partite)),
                                !.pc = "done"]
  /\ UNCHANGED <<storeVars, callVars, otherVars>>

\* The caller has taken the outcome of the read operation.
FineLettura ==
  /\ lettura.pc = "done"
  /\ lettura' = NoLettura
  /\ UNCHANGED <<storeVars, callVars, otherVars>>

\* A second passes on the clock of the store.
Tick ==
  /\ adesso < MaxClock
  /\ adesso' = adesso + 1
  /\ UNCHANGED <<giocatori, nextId, partite, nextPartitaId, callVars,
                 otherVars>>

(* ----------------------- the route POST /partite ---------------------- *)

\* A JSON value of a request body: a number or a string, with its text
\* (the number 1 and the string "1" have the text "1").
Numero(testo) == [tipo |-> "number", testo |-> testo]
Stringa(testo) == [tipo |-> "string", testo |-> testo]

\* Values a request names a player with.
IdValori ==
  {Numero("1"), Numero("2"), Numero("3"), Numero("4"), Numero("0"),
   Stringa("1"), Stringa("abc")}

\* Values a request names the winner with.
VincitoreValori == {Numero("1"), Stringa("2"), Numero("3"), Numero("0")}

\* Teams of a request: arrays of two values, and an array of one.
Squadre == [1..2 -> IdValori] \cup {<<Numero("1")>>}

\* The integer a text of digits denotes.
Cifre == ("0" :> 0) @@ ("1" :> 1) @@ ("2" :> 2) @@ ("3" :> 3) @@ ("4" :> 4)

\* parseInt(x): the argument is converted to a string and its leading
\* digits are read; NaN when there is none.
ParseInt(x) ==
  IF x.testo \in DOMAIN Cifre
  THEN [nan |-> FALSE, n |-> Cifre[x.testo]]
  ELSE [nan |-> TRUE, n |-> 0]

\* validation.js:37-40
validateId(id) ==
  LET numId == ParseInt(id)
  IN  ~numId.nan /\ numId.n > 0 /\ numId.n <= IdMassimo

\* validation.js:9: !data[field] || (a string that is blank)
Mancante(x) ==
  \/ x.tipo = "number" /\ x.testo = "0"
  \/ x.tipo = "string" /\ x.testo = ""

\* api.js:141: new Set(tuttiGiocatori).size; a Set holds a value once under
\* SameValueZero, for which a number and a string always differ.
SetSize(valori) == Cardinality({valori[i] : i \in 1..Len(valori)})

\* api.js:104-146: the validation of the route; the error of the 400
\* answer, "" when the body passes.
ValidaPartita(body) ==
  LET tuttiGiocatori == body.squadra1 \o body.squadra2
  IN  IF Mancante(body.vincitore) THEN "Dati mancanti"
      ELSE IF Len(body.squadra1) # 2 \/ Len(body.squadra2) # 2
      THEN "Formato squadre non valido"
      ELSE IF ParseInt(body.vincitore).nan
                \/ ParseInt(body.vincitore).n \notin {1, 2}
      THEN "Vincitore non valido"
      ELSE IF \E i \in 1..Len(tuttiGiocatori) : ~validateId(tuttiGiocatori[i])
      THEN "ID giocatore non valido"
      ELSE IF SetSize(tuttiGiocatori) # GiocatoriPerPartita
      THEN "Giocatori duplicati"
      ELSE ""

\* database.js:270-273, 305-312: the row a value bound to id = ? or
\* id IN (?) selects; the store compares it with the INT column as a
\* number, so the string "1" selects the row of id 1.
IdNumerico(x) == ParseInt(x).n

\* api.js:100-148: the request arrives and is validated; a body that
\* passes is handed to createPartita, the winner through parseInt.
PostPartite(body) ==
  /\ richiesta.pc = "idle"
  /\ richiesta.n < MaxRichieste
  /\ Libero("c1")
  /\ IF ValidaPartita(body) # ""
     THEN /\ richiesta' = [richiesta EXCEPT !.pc = "done", !.body = body,
                                            !.status = 400,
                                            !.error = ValidaPartita(body)]
          /\ UNCHANGED <<storeVars, callVars, otherVars>>
     ELSE /\ richiesta' = [richiesta EXCEPT !.pc = "core", !.body = body,
                                            !.invocato = TRUE]
          /\ CreatePartita("c1",
               <<IdNumerico(body.squadra1[1]), IdNumerico(body.squadra1[2])>>,
               <<IdNumerico(body.squadra2[1]), IdNumerico(body.squadra2[2])>>,
               ParseInt(body.vincitore).n)

\* api.js:148-163: createPartita has returned or thrown; the route answers
\* 201, or 500 from its catch block.
RispostaPartite ==
  /\ richiesta.pc = "core"
  /\ pc["c1"] = "done"
  /\ richiesta' =
       IF esito["c1"] = "ok"
       THEN [richiesta EXCEPT !.pc = "done", !.status = 201]
       ELSE [richiesta EXCEPT !.pc = "done", !.status = 500,
                              !.error = "Errore creazione partita"]
  /\ UNCHANGED <<storeVars, callVars, otherVars>>

\* The answer has been sent.
FineRichiesta ==
  /\ richiesta.pc = "done"
  /\ richiesta' = NoRichiesta(richiesta.n + 1)
  /\ UNCHANGED <<storeVars, callVars, otherVars>>

(* --------------------------- specifications --------------------------- *)

Passo(c) ==
  \/ CreateConnection(c)
  \/ BeginTransaction(c)
  \/ SelectElo(c)
  \/ UpdateGiocatore(c)
  \/ InsertPartita(c)
  \/ Commit(c)
  \/ Rollback(c)
  \/ End(c)

Chiamata(c, max) ==
  /\ avviate < max
  /\ \E r \in Rosters, v \in Vincitori : CreatePartita(c, r[1], r[2], v)

Guasto(c) ==
  \/ FailConnect(c)
  \/ FailStatement(c)
  \/ CommitLost(c)
  \/ FailRollback(c)
  \/ FailEnd(c)

Creazione ==
  \/ \E g \in NuoviGiocatori : CreateGiocatore(g[1], g[2])
  \/ InsertGiocatore
  \/ FineCreazione

Reset ==
  \/ \E env \in Ambienti : ResetDatabase(env)
  \/ AttendeTruncate
  \/ TruncatePartite
  \/ TruncateGiocatori
  \/ ContaGiocatori
  \/ InsertSample
  \/ FineReset

\* One createPartita at a time, against a store that answers every
\* statement.
NextSeq ==
  /\ \/ Chiamata("c1", MaxCallsSeq)
     \/ Passo("c1")
     \/ Creazione
  /\ UNCHANGED <<calcolo, lettura, extraVars>>

SpecSeq == Init /\ [][NextSeq]_vars

\* Concurrent calls of createPartita.
Next ==
  /\ \/ \E c \in Calls : Chiamata(c, MaxCalls) \/ Passo(c)
     \/ Creazione
  /\ UNCHANGED <<calcolo, lettura, extraVars>>

Spec == Init /\ [][Next]_vars

\* The same with statements that fail.
NextFault ==
  /\ \/ \E c \in Calls : Chiamata(c, MaxCalls) \/ Passo(c) \/ Guasto(c)
     \/ Creazione
  /\ UNCHANGED <<calcolo, lettura, extraVars>>

SpecFault == Init /\ [][NextFault]_vars

\* Every operation, statements that fail included; one createPartita at a
\* time.
NextFull ==
  /\ \/ Chiamata("c1", MaxCallsFull) \/ Passo("c1") \/ Guasto("c1")
     \/ Creazione
     \/ Reset
  /\ UNCHANGED <<calcolo, lettura, extraVars>>

SpecFull == Init /\ [][NextFull]_vars

\* Concurrent calls of createPartita, enough of them for one call to
\* commit after two others that started after it.
NextTre ==
  /\ \E c \in Calls : Chiamata(c, MaxCallsSeq) \/ Passo(c)
  /\ UNCHANGED <<otherVars, calcolo, lettura, extraVars>>

SpecTre == Init /\ [][NextTre]_vars

ChiamataStessi(c, max) ==
  /\ avviate < max
  /\ \E r \in RostersStessi, v \in Vincitori :
       CreatePartita(c, r[1], r[2], v)

\* Concurrent calls of createPartita on the same four players, with
\* statements that fail, next to createGiocatore.
NextConn ==
  /\ \/ \E c \in Calls : ChiamataStessi(c, MaxCalls) \/ Passo(c) \/ Guasto(c)
     \/ Creazione
  /\ UNCHANGED <<calcolo, lettura, extraVars>>

SpecConn == Init /\ [][NextConn]_vars

ChiamataDoppi(c, max) ==
  /\ avviate < max
  /\ \E r \in RostersDoppi, v \in Vincitori : CreatePartita(c, r[1], r[2], v)

\* Concurrent calls of createPartita, some with a player named twice.
NextDoppi ==
  /\ \E c \in Calls : ChiamataDoppi(c, MaxCalls) \/ Passo(c)
  /\ UNCHANGED <<otherVars, calcolo, lettura, extraVars>>

SpecDoppi == Init /\ [][NextDoppi]_vars

Lettura ==
  \/ GetGiocatori
  \/ GetPartite
  \/ ExportData
  \/ SelectRighe
  \/ NomiPartita
  \/ CheckHealth
  \/ ContaPartite
  \/ FineLettura

\* The read operations next to one createPartita at a time, on a store
\* whose clock advances.
NextRead ==
  /\ \/ /\ \/ Chiamata("c1", MaxCallsRead)
           \/ Passo("c1")
           \/ Tick
        /\ UNCHANGED lettura
     \/ Lettura
  /\ UNCHANGED <<calcolo, extraVars>>

SpecRead == Init /\ [][NextRead]_vars

\* The read operations next to createGiocatore and createPartita, with
\* statements that fail.
NextFrame ==
  /\ \/ /\ \/ Chiamata("c1", MaxCallsFull)
           \/ Passo("c1")
           \/ Guasto("c1")
           \/ Creazione
        /\ UNCHANGED lettura
     \/ Lettura
  /\ UNCHANGED <<calcolo, extraVars>>

SpecFrame == Init /\ [][NextFrame]_vars

ChiamataDisgiunti(c, max) ==
  /\ avviate < max
  /\ \E r \in RostersDisgiunti, v \in Vincitori :
       CreatePartita(c, r[1], r[2], v)

\* Concurrent calls of createPartita on rosters with no player in common,
\* on a store whose clock advances.
NextClock ==
  /\ \/ \E c \in Calls : ChiamataDisgiunti(c, MaxCalls) \/ Passo(c)
     \/ Tick
  /\ UNCHANGED <<otherVars, calcolo, lettura, extraVars>>

SpecClock == InitOtto /\ [][NextClock]_vars

\* Requests POST /partite, one at a time, with bodies of every shape.
NextRoute ==
  /\ \/ \E s1 \in Squadre, s2 \in Squadre, v \in VincitoreValori :
          PostPartite([squadra1 |-> s1, squadra2 |-> s2, vincitore |-> v])
     \/ Passo("c1") /\ UNCHANGED richiesta
     \/ RispostaPartite
     \/ FineRichiesta
  /\ UNCHANGED <<calcolo, lettura, seconda>>

SpecRoute == Init /\ [][NextRoute]_vars

CreazioneOmonimi ==
  \/ \E g \in NomiOmonimi : CreateGiocatore(g[1], g[2])
  \/ InsertGiocatore
  \/ FineCreazione

CreazioneSeconda ==
  \/ \E g \in NomiOmonimi : CreateGiocatoreSeconda(g[1], g[2])
  \/ InsertGiocatoreSeconda
  \/ FineCreazioneSeconda

\* Two concurrent calls of createGiocatore with names equal ignoring case,
\* next to one createPartita.
NextCreatori ==
  /\ \/ /\ \/ Chiamata("c1", MaxCallsFull)
           \/ Passo("c1")
           \/ CreazioneOmonimi
        /\ UNCHANGED seconda
     \/ CreazioneSeconda
  /\ UNCHANGED <<calcolo, lettura, richiesta>>

SpecCreatori == Init /\ [][NextCreatori]_vars

ChiamataOpposti(c, max) ==
  /\ avviate < max
  /\ \E r \in RostersOpposti, v \in Vincitori :
       CreatePartita(c, r[1], r[2], v)

\* A step of call c: a statement of it is answered, or the store aborts
\* its transaction to resolve a lock wait cycle.
PassoLive(c) ==
  /\ Passo(c) \/ Deadlock(c)
  /\ UNCHANGED <<calcolo, lettura, extraVars>>

\* Concurrent calls of createPartita that lock the same rows in opposite
\* orders.
NextLive ==
  \E c \in Calls :
    \/ ChiamataOpposti(c, MaxCalls)
         /\ UNCHANGED <<calcolo, lettura, extraVars>>
    \/ PassoLive(c)

\* The store answers every statement whose locks are free, and it resolves
\* every lock wait cycle; the promise chain of a call goes on whenever its
\* awaited statement has been answered.
SpecLive ==
  /\ Init
  /\ [][NextLive]_vars
  /\ \A c \in Calls : WF_vars(PassoLive(c))

(* ------------------------- calcolaELO on its own ---------------------- *)

\* Ratings calcolaELO is applied to, in points: small ones of either sign,
\* and the ratings of the first matches.
Ratings == (-MaxSmallElo..MaxSmallElo) \cup {1484, 1500, 1516}

\* K factors calcolaELO is applied to.
Fattori == -1..MaxK

InitELO ==
  /\ InitStore
  /\ \E a \in Ratings, b \in Ratings, r \in {0, 1}, k \in Fattori :
       /\ 2 * b - 2 * a \in -MaxDiff..MaxDiff
       /\ calcolo = [eloA |-> 2 * a, eloB |-> 2 * b, risultato |-> r,
                     k |-> k, fatto |-> FALSE, nuovo |-> 0]

\* database.js:357-360 applied to the arguments drawn.
CalcolaELO ==
  /\ ~calcolo.fatto
  /\ calcolo' = [calcolo EXCEPT
                   !.fatto = TRUE,
                   !.nuovo = calcolaELO(calcolo.eloA, calcolo.eloB,
                                        calcolo.risultato, calcolo.k)]
  /\ UNCHANGED <<storeVars, callVars, otherVars, lettura, extraVars>>

NextELO == CalcolaELO

SpecELO == InitELO /\ [][NextELO]_vars

(* ------------------------------- claims ------------------------------- *)

R1 == << <<1, 2>>, <<3, 4>> >>
R2 == << <<1, 5>>, <<6, 7>> >>

\* The matches of the committed table partite that player p took part in.
PartiteDi(p) ==
  {i \in 1..Len(partite) :
     p \in {partite[i].squadra1[1], partite[i].squadra1[2],
            partite[i].squadra2[1], partite[i].squadra2[2]}}

\* The team (1 or 2) of the i-th identifier of a call.
SquadraDi(i) == IF i <= 2 THEN 1 ELSE 2

\* C1: createPartita is atomic.  At every moment the committed store holds
\* either none or all five of the writes of a call (four player rows, one
\* match row), whichever statement failed; and once the call has ended it
\* has no transaction open and no write pending that could still surface.
RecordMatchAtomic ==
  \A c \in Calls :
    /\ durable[c] \in {0, GiocatoriPerPartita + 1}
    /\ pc[c] = "done" =>
         /\ ~inTx[c]
         /\ scritti[c] = Vuoto
         /\ inserita[c] = <<>>

\* C1 witness: a statement failed after the four UPDATEs and before the
\* INSERT, the catch block has rolled back, and the store is the one the
\* call found.
RolledBackAfterUpdates ==
  \E c \in Calls :
    /\ pc[c] = "finally"
    /\ errore[c] = ErrStore
    /\ idx[c] = GiocatoriPerPartita
    /\ insertId[c] = 0
    /\ durable[c] = 0
    /\ ~inTx[c]
    /\ giocatori = SampleStore
    /\ partite = <<>>

\* C2: a call that reports a failure has left the committed store as it
\* was, and a call whose writes were committed returns its result.
FailureLeavesStoreUnchanged ==
  \A c \in Calls :
    pc[c] = "done" =>
      /\ esito[c] = "error" => durable[c] = 0
      /\ durable[c] > 0 => esito[c] = "ok" /\ ritorno[c] # <<>>

\* C3: a rating read of fewer than four rows makes the call fail with the
\* unknown-player error: no UPDATE and no INSERT is executed, nothing
\* reaches the store, and no value is returned.
UnknownPlayerRejected ==
  \A c \in Calls :
    /\ righe[c] \in 0..(GiocatoriPerPartita - 1) =>
         /\ pc[c] \in {"catch", "finally"}
         /\ errore[c] = ErrSconosciuto
         /\ idx[c] = 0
         /\ scritti[c] = Vuoto
         /\ inserita[c] = <<>>
         /\ durable[c] = 0
    /\ pc[c] = "done" /\ errore[c] = ErrSconosciuto =>
         /\ esito[c] = "error"
         /\ ritorno[c] = <<>>
         /\ durable[c] = 0

\* C3 witness: a call naming player 7, who does not exist, has ended with
\* the unknown-player error and the store is untouched.
UnknownPlayerCallEnded ==
  \E c \in Calls :
    /\ pc[c] = "done"
    /\ args[c][2] = <<6, 7>>
    /\ 7 \notin DOMAIN giocatori
    /\ errore[c] = ErrSconosciuto
    /\ esito[c] = "error"
    /\ giocatori = SampleStore
    /\ partite = <<>>

\* C4: no match is lost from a player's counters.  Every player's partite
\* is the number of committed matches the player took part in, and so is
\* vittorie + sconfitte; two committed calls that share one player leave
\* that player with 2 more of each, however they interleave.
NoLostMatchCount ==
  \A p \in DOMAIN giocatori :
    /\ giocatori[p].partite = Cardinality(PartiteDi(p))
    /\ giocatori[p].vittorie + giocatori[p].sconfitte
         = Cardinality(PartiteDi(p))

\* C4 witness: two calls that share exactly player 1 ran concurrently (each
\* read player 1 before the other committed) and both have committed;
\* player 1 has played 2 matches.
TwoConcurrentCommitsShareOnePlayer ==
  /\ pc["c1"] = "finally" /\ errore["c1"] = "" /\ durable["c1"] > 0
  /\ pc["c2"] = "finally" /\ errore["c2"] = "" /\ durable["c2"] > 0
  /\ {args["c1"][1], args["c2"][1]} = {<<1, 2>>, <<1, 5>>}
  /\ eloMap["c1"][1] = EloIniziale
  /\ eloMap["c2"][1] = EloIniziale
  /\ giocatori[1].partite = 2
  /\ giocatori[1].vittorie + giocatori[1].sconfitte = 2

\* C5: rating updates of calls that share a player serialize.  Once a call
\* has executed its UPDATEs, the rating it read for each player it wrote
\* (the one its delta was computed from and added to) is the rating
\* committed in the store: no other call has committed a rating of that
\* player since the read.
RatingUpdatesSerialize ==
  \A c \in Calls :
    pc[c] \in {"insert", "commit"} =>
      \A p \in DOMAIN scritti[c] : eloMap[c][p] = giocatori[p].elo

\* C6: partite = vittorie + sconfitte for every committed player row.
PartiteIsVittoriePlusSconfitte ==
  \A p \in DOMAIN giocatori :
    giocatori[p].partite = giocatori[p].vittorie + giocatori[p].sconfitte

\* C6 witness: a match has been committed (a player has a loss on record)
\* in a store that also holds a player added by createGiocatore.
LoserAndCreatedPlayerInStore ==
  /\ \E p \in DOMAIN giocatori :
       giocatori[p].partite = 1 /\ giocatori[p].sconfitte = 1
  /\ \E q \in DOMAIN giocatori : giocatori[q].nome = "Anna"

\* C7: players 1..4 at 1500 with no match on record, createPartita([1,2],
\* [3,4], 1): once committed the ratings are 1516, 1516, 1484, 1484, each
\* of the four has partite = 1, players 1 and 2 one win and no loss,
\* players 3 and 4 one loss and no win, and the deltas returned are +16
\* and -16 (32 and -32 halves).
Scenario1500 ==
  \A c \in Calls :
    ( /\ pc[c] = "finally"
      /\ errore[c] = ""
      /\ args[c] = <<R1[1], R1[2], 1>>
      /\ \A p \in 1..4 : eloMap[c][p] = 1500
      /\ Len(partite) = 1 )
    => /\ giocatori[1].elo = 1516 /\ giocatori[2].elo = 1516
       /\ giocatori[3].elo = 1484 /\ giocatori[4].elo = 1484
       /\ \A p \in 1..4 : giocatori[p].partite = 1
       /\ \A p \in 1..2 :
            giocatori[p].vittorie = 1 /\ giocatori[p].sconfitte = 0
       /\ \A p \in 3..4 :
            giocatori[p].vittorie = 0 /\ giocatori[p].sconfitte = 1
       /\ ritorno[c] = <<insertId[c], 32, -32>>

\* C7 witness: that call has committed as the first match of the store.
Scenario1500Committed ==
  \E c \in Calls :
    /\ pc[c] = "finally"
    /\ errore[c] = ""
    /\ args[c] = <<R1[1], R1[2], 1>>
    /\ \A p \in 1..4 : eloMap[c][p] = 1500
    /\ Len(partite) = 1
    /\ partite[1].squadra1 = <<1, 2>>
    /\ giocatori[1].elo = 1516

\* C8: the rating a call stores for a player is the rating it read plus the
\* delta of the player's team that it returns, so that both team mates move
\* by the delta returned.
StoredRatingMovesByDelta ==
  \A c \in Calls :
    \A i \in 1..idx[c] :
      LET p == TuttiGiocatori(c)[i]
      IN  p \in DOMAIN scritti[c] =>
            2 * scritti[c][p].elo = 2 * eloMap[c][p] + delta[c][SquadraDi(i)]

\* C9: every delta a call computes, and every new rating it computes from
\* it and binds to SET elo = ?, is an integer (an even number of halves).
RatingsAreIntegers ==
  \A c \in Calls :
    pc[c] \in {"update", "insert", "commit"} =>
      /\ delta[c][1] % 2 = 0
      /\ delta[c][2] % 2 = 0
      /\ \A i \in 1..Len(TuttiGiocatori(c)) :
           NuovoElo(eloMap[c][TuttiGiocatori(c)[i]],
                    delta[c][SquadraDi(i)]) % 2 = 0

\* C10 as stated: at equal ratings calcolaELO returns more than the rating
\* for a win and less for a loss, for every integer rating and integer k.
EqualRatingsMoveStrictly ==
  (calcolo.fatto /\ calcolo.eloA = calcolo.eloB) =>
    /\ calcolo.risultato = 1 => calcolo.nuovo > calcolo.eloA
    /\ calcolo.risultato = 0 => calcolo.nuovo < calcolo.eloA

\* C10 as amended: at equal ratings calcolaELO returns more than the rating
\* for a win when k >= 1, and less than the rating for a loss when k >= 2.
EqualRatingsMoveStrictlyForK ==
  (calcolo.fatto /\ calcolo.eloA = calcolo.eloB) =>
    /\ calcolo.risultato = 1 /\ calcolo.k >= 1 =>
         calcolo.nuovo > calcolo.eloA
    /\ calcolo.risultato = 0 /\ calcolo.k >= 2 =>
         calcolo.nuovo < calcolo.eloA

\* C10 witness: a loss at equal ratings with k = 2 has been computed and
\* takes one point.
LossWithKTwoComputed ==
  /\ calcolo.fatto
  /\ calcolo.eloA = calcolo.eloB
  /\ calcolo.risultato = 0
  /\ calcolo.k = 2
  /\ calcolo.nuovo = calcolo.eloA - 2

\* C11 as stated: at equal ratings the gain of a win equals the loss of a
\* loss, for every integer rating and every integer k.
EqualRatingsSymmetric ==
  (calcolo.fatto /\ calcolo.eloA = calcolo.eloB) =>
    calcolo.nuovo - calcolo.eloA
      = calcolo.eloA - calcolaELO(calcolo.eloA, calcolo.eloB,
                                  1 - calcolo.risultato, calcolo.k)

\* C11 as amended: at equal ratings the gain of a win equals the loss of a
\* loss, for every integer rating and every even integer k.
EqualRatingsSymmetricForEvenK ==
  (calcolo.fatto /\ calcolo.eloA = calcolo.eloB /\ calcolo.k % 2 = 0) =>
    calcolo.nuovo - calcolo.eloA
      = calcolo.eloA - calcolaELO(calcolo.eloA, calcolo.eloB,
                                  1 - calcolo.risultato, calcolo.k)

\* C11 witness: a win at equal ratings with k = 32 has been computed and
\* gives 16 points, the 16 points the loss takes.
WinWithDefaultKComputed ==
  /\ calcolo.fatto
  /\ calcolo.eloA = calcolo.eloB
  /\ calcolo.risultato = 1
  /\ calcolo.k = FattoreK
  /\ calcolo.nuovo = calcolo.eloA + FattoreK
  /\ calcolaELO(calcolo.eloA, calcolo.eloB, 0, calcolo.k)
       = calcolo.eloA - FattoreK

\* Rounding to the nearest integer, a tie away from zero, of
\* halves / 2 + num / (2 * Scala); the result in halves.
ArrotondaLontanoDaZero(halves, num) ==
  LET q   == halves \div 2
      f   == (halves % 2) * Scala + num
      n   == q + ((f + Scala) \div (2 * Scala))
      tie == (f + Scala) % (2 * Scala) = 0
  IN  IF tie /\ n <= 0 THEN 2 * (n - 1) ELSE 2 * n

\* C12: calcolaELO returns eloA + k * (risultato - atteso) rounded to the
\* nearest integer, a tie resolved away from zero, also where the value is
\* negative or a half-integer.
RoundsTiesAwayFromZero ==
  calcolo.fatto =>
    calcolo.nuovo =
      ArrotondaLontanoDaZero(
        calcolo.eloA,
        2 * calcolo.k * (calcolo.risultato * Scala
                           - Atteso(calcolo.eloA, calcolo.eloB)))

\* The identifiers a roster names.
Nominati(squadra1, squadra2) ==
  {(squadra1 \o squadra2)[i] : i \in 1..Len(squadra1 \o squadra2)}

\* C13: every row of partite, committed or written by an open transaction,
\* has two teams of two identifiers, the four pairwise distinct; a call
\* whose roster names a player more than once executes no UPDATE and no
\* INSERT, leaves nothing in the store, and ends with an error.
NoDuplicateInMatch ==
  /\ \A i \in 1..Len(partite) :
       /\ Len(partite[i].squadra1) = 2
       /\ Len(partite[i].squadra2) = 2
       /\ Cardinality(Nominati(partite[i].squadra1, partite[i].squadra2))
            = GiocatoriPerPartita
  /\ \A c \in Calls :
       /\ \A i \in 1..Len(inserita[c]) :
            Cardinality(Nominati(inserita[c][i].squadra1,
                                 inserita[c][i].squadra2))
              = GiocatoriPerPartita
       /\ ( /\ pc[c] # "idle"
            /\ Cardinality(Nominati(args[c][1], args[c][2]))
                 < GiocatoriPerPartita )
          => /\ idx[c] = 0
             /\ scritti[c] = Vuoto
             /\ inserita[c] = <<>>
             /\ durable[c] = 0
             /\ ritorno[c] = <<>>
             /\ pc[c] = "done" => esito[c] = "error"

\* C13 witness: a call that names player 1 in both teams has ended with an
\* error while the match of another call is in the store.
DuplicateCallEnded ==
  \E c \in Calls :
    /\ pc[c] = "done"
    /\ args[c][1] = <<1, 2>>
    /\ args[c][2] = <<1, 2>>
    /\ esito[c] = "error"
    /\ errore[c] = ErrSconosciuto
    /\ Len(partite) = 1

\* A committed row has the name `nome`, ignoring case.
EsisteNome(nome) ==
  \E p \in DOMAIN giocatori : Lower(giocatori[p].nome) = Lower(nome)

\* C14: createGiocatore(nome, ruolo).  If a row with that name ignoring
\* case exists, the call fails with the duplicate-player error and leaves
\* the table as it is; otherwise it goes on to its INSERT, which adds
\* exactly one row, with elo 1500 and partite, vittorie, sconfitte 0, under
\* a new id, keeps every other row, and the call ends without an error.
CreatePlayerContract ==
  [][ /\ (creazione.pc = "idle" /\ creazione'.pc # "idle") =>
           /\ giocatori' = giocatori
           /\ IF EsisteNome(creazione'.nome)
              THEN creazione'.pc = "done" /\ creazione'.errore = ErrEsistente
              ELSE creazione'.pc = "insert" /\ creazione'.errore = ""
      /\ (creazione.pc = "insert" /\ creazione'.pc # "insert") =>
           /\ creazione'.pc = "done"
           /\ creazione'.errore = ""
           /\ nextId \notin DOMAIN giocatori
           /\ DOMAIN giocatori' = DOMAIN giocatori \cup {nextId}
           /\ giocatori'[nextId] =
                [nome |-> creazione.nome, ruolo |-> creazione.ruolo,
                 elo |-> EloIniziale,
                 partite |-> 0, vittorie |-> 0, sconfitte |-> 0]
           /\ \A p \in DOMAIN giocatori : giocatori'[p] = giocatori[p]
    ]_vars

\* C14 witness: "mario" has been refused as a duplicate of "Mario", row 1
\* of a table that still has its six rows.
DuplicateNameRefused ==
  /\ creazione.pc = "done"
  /\ creazione.nome = "mario"
  /\ creazione.errore = ErrEsistente
  /\ giocatori[1].nome = "Mario"
  /\ DOMAIN giocatori = 1..Len(SamplePlayers)

\* C15: resetDatabase called with NODE_ENV = production fails with the
\* error of the guard at once: the call step changes no row of giocatori
\* or partite and no AUTO_INCREMENT, and the call never reaches a TRUNCATE
\* or the sample inserts.
ProductionResetForbidden ==
  [][ /\ (reset.pc = "idle" /\ reset'.pc # "idle"
            /\ reset'.env = "production") =>
           /\ reset'.pc = "done"
           /\ reset'.errore = ErrProduzione
           /\ storeVars' = storeVars
      /\ (reset.env = "production" /\ reset' # reset) =>
           /\ reset'.pc = "idle"
           /\ storeVars' = storeVars
    ]_vars

\* C15 witness: a reset in production has been refused while the store
\* holds a committed match, which is still there.
ProductionResetRefused ==
  /\ reset.pc = "done"
  /\ reset.env = "production"
  /\ reset.errore = ErrProduzione
  /\ Len(partite) = 1
  /\ giocatori[1].partite = 1

\* C16: when a resetDatabase outside production has completed without an
\* error, giocatori and partite hold no row.
ResetLeavesStoreEmpty ==
  (reset.pc = "done" /\ reset.env = "development" /\ reset.errore = "") =>
    /\ DOMAIN giocatori = {}
    /\ partite = <<>>

\* C17: the rows getGiocatori returns (on its own or for exportData) are
\* the committed rows of giocatori, each exactly once, ordered by elo
\* descending and, for equal elo, by nome ascending.
GetPlayersOrdered ==
  [][ (lettura.pc = "idle"
         /\ lettura'.op \in {"getGiocatori", "exportData"}) =>
        LET r == lettura'.giocatori
        IN  /\ Len(r) = Cardinality(DOMAIN giocatori)
            /\ {r[i].id : i \in 1..Len(r)} = DOMAIN giocatori
            /\ \A i \in 1..Len(r) :
                 /\ r[i].nome = giocatori[r[i].id].nome
                 /\ r[i].elo = giocatori[r[i].id].elo
                 /\ r[i].partite = giocatori[r[i].id].partite
                 /\ r[i].vittorie = giocatori[r[i].id].vittorie
                 /\ r[i].sconfitte = giocatori[r[i].id].sconfitte
            /\ \A i \in 1..(Len(r) - 1) :
                 \/ r[i].elo > r[i + 1].elo
                 \/ /\ r[i].elo = r[i + 1].elo
                    /\ Peso(r[i].nome) <= Peso(r[i + 1].nome)
    ]_vars

\* C17 witness: getGiocatori has returned the six players after a match
\* won by Mario and Luigi: Luigi and Mario first, at 1516, in the order of
\* their names, the losers last at 1484.
PlayersListedAfterMatch ==
  /\ lettura.op = "getGiocatori"
  /\ lettura.pc = "done"
  /\ Len(lettura.giocatori) = 6
  /\ lettura.giocatori[1].nome = "Luigi"
  /\ lettura.giocatori[1].elo = 1516
  /\ lettura.giocatori[2].nome = "Mario"
  /\ lettura.giocatori[2].elo = 1516
  /\ lettura.giocatori[3].nome = "Giovanni"
  /\ lettura.giocatori[6].elo = 1484

\* C18: a getPartite that has ended has returned, without an error, one
\* element for every row its SELECT found, in the order of the SELECT, by
\* data descending, each with the names of its four players.
GetMatchesReturnsEveryMatch ==
  (lettura.op = "getPartite" /\ lettura.pc = "done") =>
    /\ lettura.errore = ""
    /\ Len(lettura.partite) = Len(lettura.righe)
    /\ \A i \in 1..Len(lettura.partite) :
         /\ lettura.partite[i].id = lettura.righe[i].id
         /\ \A j \in 1..GiocatoriPerPartita :
              lettura.partite[i].nomi_giocatori[j] # "undefined"
    /\ \A i \in 1..(Len(lettura.partite) - 1) :
         lettura.partite[i].data >= lettura.partite[i + 1].data

\* A step in which the transaction of call c becomes durable.
CommitDi(c) ==
  /\ pc[c] = "commit"
  /\ pc'[c] # "commit"
  /\ durable'[c] > durable[c]

\* C19: a row of giocatori that exists is changed only by the commit of a
\* createPartita naming that player, and partite only grows, by the row of
\* a createPartita at its commit, the rows it holds staying as they are;
\* every step of createGiocatore, getGiocatori, getPartite, exportData and
\* checkHealth leaves the existing rows of giocatori and all of partite
\* unchanged.
OnlyRecordMatchWritesStats ==
  [][ /\ \A p \in DOMAIN giocatori :
           /\ p \in DOMAIN giocatori'
           /\ giocatori'[p] # giocatori[p] =>
                \E c \in Calls :
                  /\ CommitDi(c)
                  /\ p \in Nominati(args[c][1], args[c][2])
      /\ partite' # partite =>
           /\ \E c \in Calls : CommitDi(c)
           /\ Len(partite') = Len(partite) + 1
           /\ \A i \in 1..Len(partite) : partite'[i] = partite[i]
      /\ (creazione' # creazione \/ lettura' # lettura) =>
           /\ \A p \in DOMAIN giocatori : giocatori'[p] = giocatori[p]
           /\ partite' = partite
           /\ nextPartitaId' = nextPartitaId
    ]_vars

\* C19 witness: exportData has returned the one committed match from a
\* store to which createGiocatore has added a row; the match and the
\* counters of its players are as the createPartita left them.
ExportAfterMatchAndCreation ==
  /\ lettura.op = "exportData"
  /\ lettura.pc = "done"
  /\ lettura.errore = ""
  /\ Len(lettura.partite) = 1
  /\ 7 \in DOMAIN giocatori
  /\ giocatori[7].nome = "Anna"
  /\ Len(partite) = 1
  /\ partite[1].squadra1 = <<1, 2>>
  /\ giocatori[1].partite = 1

\* C20: partite, vittorie and sconfitte of every committed row are never
\* negative, and from one committed state to the next no row disappears
\* and none of the three decreases, whether the calls of createPartita and
\* createGiocatore succeed, fail or are rolled back.
CountersNeverDecrease ==
  [][ /\ \A p \in DOMAIN giocatori' :
           /\ giocatori'[p].partite >= 0
           /\ giocatori'[p].vittorie >= 0
           /\ giocatori'[p].sconfitte >= 0
      /\ \A p \in DOMAIN giocatori :
           /\ p \in DOMAIN giocatori'
           /\ giocatori'[p].partite >= giocatori[p].partite
           /\ giocatori'[p].vittorie >= giocatori[p].vittorie
           /\ giocatori'[p].sconfitte >= giocatori[p].sconfitte
    ]_vars

\* C20 witness: one call has committed a match of player 1 and another,
\* one of whose statements failed, has ended with an error and with
\* nothing of it in the store.
CommittedAndRolledBackCalls ==
  /\ giocatori[1].partite = 1
  /\ Len(partite) = 1
  /\ \E c \in Calls :
       /\ pc[c] = "done"
       /\ esito[c] = "error"
       /\ errore[c] = ErrStore
       /\ durable[c] = 0
  /\ \E c \in Calls : durable[c] = GiocatoriPerPartita + 1

\* C21: the timestamp of a match is assigned at commit time: of two rows of
\* partite, the one committed later (partite is kept in commit order) has a
\* data that is not earlier, also when the two calls ran concurrently.
TimestampFollowsCommitOrder ==
  \A i, j \in 1..Len(partite) :
    i < j => partite[i].data <= partite[j].data

\* C22: every call of createPartita has a connection and a transaction of
\* its own.  A transaction is open only while its call runs between
\* beginTransaction and the end of the call; when the call ends, committed,
\* rolled back or with a rollback or an end that failed, no transaction and
\* no pending write of it is left; a step of one call leaves the
\* transaction of the other call as it is, the steps of its catch and
\* finally blocks leave the committed store as it is, and createGiocatore,
\* on the shared connection, runs in no call's transaction.
OwnConnectionPerCall ==
  [][ /\ \A c \in Calls :
           /\ pc'[c] = "done" =>
                /\ ~inTx'[c]
                /\ scritti'[c] = Vuoto
                /\ inserita'[c] = <<>>
           /\ inTx'[c] =>
                pc'[c] \in {"select", "update", "insert", "commit", "catch",
                            "finally"}
           /\ pc'[c] # pc[c] =>
                \A d \in Calls \ {c} :
                  /\ inTx'[d] = inTx[d]
                  /\ scritti'[d] = scritti[d]
                  /\ inserita'[d] = inserita[d]
           /\ (pc[c] \in {"catch", "finally"} /\ pc'[c] # pc[c]) =>
                /\ giocatori' = giocatori
                /\ partite' = partite
      /\ creazione' # creazione =>
           /\ inTx' = inTx
           /\ scritti' = scritti
           /\ inserita' = inserita
    ]_vars

\* C22 witness: a call whose rollback failed, so that its transaction was
\* still open in the finally block, has ended with no transaction left,
\* while the other call is in a transaction with writes pending.
OpenTransactionClosedByEnd ==
  \E c, d \in Calls :
    /\ c # d
    /\ pc[c] = "done"
    /\ errore[c] = ErrRollback
    /\ ~inTx[c]
    /\ scritti[c] = Vuoto
    /\ inTx[d]
    /\ scritti[d] # Vuoto

\* C23: when a call with vincitore w commits, each of the two members of
\* team w has vittorie + 1 and sconfitte unchanged, each of the two members
\* of the other team has sconfitte + 1 and vittorie unchanged, all four
\* have partite + 1, and the two deltas were computed with outcome 1 for
\* team w and outcome 0 for the other team.
WinnersAndLosersCounted ==
  [][ \A c \in Calls :
        CommitDi(c) =>
          LET w  == args[c][3]
              e1 == EloSquadra(eloMap[c], args[c][1])
              e2 == EloSquadra(eloMap[c], args[c][2])
          IN  /\ w \in {1, 2}
              /\ \A i \in 1..GiocatoriPerPartita :
                   LET p == TuttiGiocatori(c)[i]
                   IN  /\ giocatori'[p].partite = giocatori[p].partite + 1
                       /\ IF SquadraDi(i) = w
                          THEN /\ giocatori'[p].vittorie
                                    = giocatori[p].vittorie + 1
                               /\ giocatori'[p].sconfitte
                                    = giocatori[p].sconfitte
                          ELSE /\ giocatori'[p].vittorie
                                    = giocatori[p].vittorie
                               /\ giocatori'[p].sconfitte
                                    = giocatori[p].sconfitte + 1
              /\ \E r1, r2 \in {0, 1} :
                   /\ r1 + r2 = 1
                   /\ r1 = 1 <=> w = 1
                   /\ delta[c][1] = calcolaELO(e1, e2, r1, FattoreK) - e1
                   /\ delta[c][2] = calcolaELO(e2, e1, r2, FattoreK) - e2
    ]_vars

\* C23 witness: a call won by team 2 has committed the second match of the
\* store; player 1, in team 1 of both matches, has lost this one.
SecondTeamWinCommitted ==
  \E c \in Calls :
    /\ pc[c] = "finally"
    /\ errore[c] = ""
    /\ durable[c] > 0
    /\ args[c][3] = 2
    /\ Len(partite) = 2
    /\ partite[2].vincitore = 2
    /\ giocatori[1].partite = 2
    /\ giocatori[1].sconfitte >= 1

\* C24: a call of createPartita changes only the rows of its four players
\* and adds one row to partite.  At its commit every row of a player in
\* neither team stays as it is, no row appears or disappears, the rows of
\* the four players keep nome and ruolo under the same id, and partite
\* grows by exactly one row, that of the call; every other step of the call
\* leaves giocatori and partite as they are.
OnlyParticipantsChange ==
  [][ \A c \in Calls :
        /\ CommitDi(c) =>
             /\ DOMAIN giocatori' = DOMAIN giocatori
             /\ nextId' = nextId
             /\ \A p \in DOMAIN giocatori :
                  IF p \in Nominati(args[c][1], args[c][2])
                  THEN /\ giocatori'[p].nome = giocatori[p].nome
                       /\ giocatori'[p].ruolo = giocatori[p].ruolo
                  ELSE giocatori'[p] = giocatori[p]
             /\ Len(partite') = Len(partite) + 1
             /\ \A i \in 1..Len(partite) : partite'[i] = partite[i]
             /\ partite'[Len(partite')].squadra1 = args[c][1]
             /\ partite'[Len(partite')].squadra2 = args[c][2]
        /\ (pc'[c] # pc[c] /\ ~CommitDi(c)) =>
             /\ giocatori' = giocatori
             /\ partite' = partite
    ]_vars

\* C24 witness: the match of players 1..4 has been committed in a store
\* that holds Anna as row 7: Anna and player 5 are as they were, player 1
\* is still Mario, portiere, with one match.
MatchCommittedNextToOthers ==
  \E c \in Calls :
    /\ pc[c] = "finally"
    /\ errore[c] = ""
    /\ durable[c] = GiocatoriPerPartita + 1
    /\ args[c][1] = <<1, 2>>
    /\ 7 \in DOMAIN giocatori
    /\ giocatori[7] = NuovoGiocatore("Anna", "attaccante")
    /\ giocatori[5] = SampleStore[5]
    /\ giocatori[1].nome = "Mario"
    /\ giocatori[1].ruolo = "portiere"
    /\ giocatori[1].partite = 1
    /\ Len(partite) = 1

\* The players the four identifiers of a request body denote.
Denotati(body) ==
  {IdNumerico((body.squadra1 \o body.squadra2)[i]) :
     i \in 1..Len(body.squadra1 \o body.squadra2)}

\* C25: the route POST /partite never calls createPartita with a roster
\* that names a player more than once: a request whose four identifiers,
\* each accepted by validateId, denote fewer than four distinct players is
\* answered 400 'Giocatori duplicati' and createPartita is not called.
RouteRejectsDuplicates ==
  /\ richiesta.invocato =>
       Cardinality(Nominati(args["c1"][1], args["c1"][2]))
         = GiocatoriPerPartita
  /\ ( /\ richiesta.pc = "done"
       /\ ValidaPartita(richiesta.body)
            \in {"", "Giocatori duplicati"}
       /\ Cardinality(Denotati(richiesta.body)) < GiocatoriPerPartita )
     => /\ ~richiesta.invocato
        /\ richiesta.status = 400
        /\ richiesta.error = "Giocatori duplicati"

\* C26: of two concurrent calls of createGiocatore with names equal
\* ignoring case, exactly one creates the row: once both have ended and a
\* row with the name exists, there is exactly one such row, and a call that
\* did not create it has failed with the duplicate-player error.
ConcurrentDuplicateRefused ==
  ( /\ creazione.pc = "done"
    /\ seconda.pc = "done"
    /\ Lower(creazione.nome) = Lower(seconda.nome) )
  => /\ Cardinality(Omonimi(creazione.nome)) = 1
     /\ creazione.errore \in {"", ErrEsistente}
     /\ seconda.errore \in {"", ErrEsistente}
     /\ creazione.errore = "" <=> seconda.errore = ErrEsistente

\* C27: every call of createPartita that has been made ends, also when two
\* calls lock the same rows in opposite orders; a call the store has
\* aborted to resolve the lock wait cycle has none of its writes in the
\* store or pending, goes from its catch block to its end without
\* executing another statement, and ends with the error, not with a value.
EveryCallEnds ==
  /\ \A c \in Calls : (pc[c] \notin {"idle", "done"}) ~> (pc[c] = "done")
  /\ [](\A c \in Calls :
          errore[c] = ErrDeadlock =>
            /\ pc[c] \in {"catch", "finally", "done"}
            /\ durable[c] = 0
            /\ ~inTx[c]
            /\ scritti[c] = Vuoto
            /\ inserita[c] = <<>>
            /\ ritorno[c] = <<>>
            /\ pc[c] = "done" => esito[c] = "error")
  /\ [][ \A c \in Calls :
           (errore[c] = ErrDeadlock /\ pc[c] # "done" /\ pc'[c] # pc[c]) =>
             /\ pc'[c] \in {"finally", "done"}
             /\ errore'[c] = ErrDeadlock
             /\ giocatori' = giocatori
             /\ partite' = partite
     ]_vars

\* C27 witness: two calls with the teams exchanged waited for each other;
\* one has been aborted by the store and has ended with its error, the
\* other has committed its match.
DeadlockVictimEnded ==
  \E c, d \in Calls :
    /\ c # d
    /\ pc[c] = "done"
    /\ errore[c] = ErrDeadlock
    /\ esito[c] = "error"
    /\ durable[c] = 0
    /\ durable[d] = GiocatoriPerPartita + 1
    /\ args[c][1] = args[d][2]
    /\ Len(partite) = 1

\* The matches of the committed table partite that the team of player p
\* won.
VinteDa(p) ==
  {i \in PartiteDi(p) :
     \/ partite[i].vincitore = 1
          /\ p \in {partite[i].squadra1[1], partite[i].squadra1[2]}
     \/ partite[i].vincitore = 2
          /\ p \in {partite[i].squadra2[1], partite[i].squadra2[2]}}

\* The sum of column `campo` over the rows of giocatori with an id in S.
RECURSIVE SommaSu(_, _)
SommaSu(S, campo) ==
  IF S = {} THEN 0
  ELSE LET p == CHOOSE q \in S : TRUE
       IN  giocatori[p][campo] + SommaSu(S \ {p}, campo)

\* C28: whenever no operation is in progress, the counters of the players
\* agree with the match log: partite of every player is the number of rows
\* of partite naming the player, vittorie the number of those the player's
\* team won, and over all players partite sums to 4 times the number of
\* matches, vittorie and sconfitte to 2 times each.
StatsAgreeWithMatchLog ==
  ( /\ reset.pc = "idle"
    /\ creazione.pc = "idle"
    /\ \A c \in Calls : Libero(c) )
  => /\ \A p \in DOMAIN giocatori :
          /\ giocatori[p].partite = Cardinality(PartiteDi(p))
          /\ giocatori[p].vittorie = Cardinality(VinteDa(p))
     /\ SommaSu(DOMAIN giocatori, "partite")
          = GiocatoriPerPartita * Len(partite)
     /\ 2 * SommaSu(DOMAIN giocatori, "vittorie")
          = GiocatoriPerPartita * Len(partite)
     /\ 2 * SommaSu(DOMAIN giocatori, "sconfitte")
          = GiocatoriPerPartita * Len(partite)

\* C29: getGiocatori (on its own or for exportData) never returns a
\* half-applied match.  Every row it returns counts exactly the matches
\* committed in partite, with the wins among them, so the four players of a
\* match show it all or none; and a row an open transaction has written is
\* returned with its committed rating and counters, never with those the
\* transaction has pending, whether the transaction later commits or is
\* rolled back.
ReadsSeeWholeMatches ==
  [][ (lettura.pc = "idle"
         /\ lettura'.op \in {"getGiocatori", "exportData"}) =>
        LET r == lettura'.giocatori
        IN  \A i \in 1..Len(r) :
              /\ r[i].partite = Cardinality(PartiteDi(r[i].id))
              /\ r[i].vittorie = Cardinality(VinteDa(r[i].id))
              /\ r[i].sconfitte = r[i].partite - r[i].vittorie
              /\ \A c \in Calls :
                   (inTx[c] /\ r[i].id \in DOMAIN scritti[c]) =>
                     /\ r[i].elo = giocatori[r[i].id].elo
                     /\ r[i].partite = scritti[c][r[i].id].partite - 1
    ]_vars

\* C29 witness: getGiocatori has returned while the call has two of its
\* four UPDATEs pending in its open transaction; the six rows returned
\* have no match and the initial rating.
ReadDuringOpenTransaction ==
  /\ lettura.op = "getGiocatori"
  /\ lettura.pc = "done"
  /\ inTx["c1"]
  /\ idx["c1"] = 2
  /\ DOMAIN scritti["c1"] = {1, 2}
  /\ scritti["c1"][1].partite = 1
  /\ Len(lettura.giocatori) = 6
  /\ \A i \in 1..Len(lettura.giocatori) :
       /\ lettura.giocatori[i].partite = 0
       /\ lettura.giocatori[i].elo = EloIniziale

\* C30: winning never lowers and losing never raises a rating.  When a
\* call commits, the delta it returns for the winning team is >= 0 and the
\* one for the losing team is <= 0, and the rating the commit leaves in
\* the store is not lower than the rating before it for a member of the
\* winning team, and not higher for a member of the losing team.
WinNeverLowersRating ==
  [][ \A c \in Calls :
        (CommitDi(c) /\ pc'[c] = "finally") =>
          LET w == args[c][3]
          IN  /\ ritorno'[c][1 + w] >= 0
              /\ ritorno'[c][4 - w] <= 0
              /\ \A i \in 1..GiocatoriPerPartita :
                   LET p == TuttiGiocatori(c)[i]
                   IN  IF SquadraDi(i) = w
                       THEN giocatori'[p].elo >= giocatori[p].elo
                       ELSE giocatori'[p].elo <= giocatori[p].elo
    ]_vars
====
